---- MODULE Spec2Model ----
(***************************************************************************)
(* Model of the behaviours of the 'liquidity_provision' skill              *)
(* (packages/valory/skills/liquidity_provision/behaviours.py).             *)
(*                                                                         *)
(* Every participant runs one cooperative behaviour at a time; the         *)
(* behaviour that runs is the one whose matching_round is the current      *)
(* round of the agreement substrate.  A behaviour computes a payload,      *)
(* submits it, waits for the end of the round and sets done.               *)
(*                                                                         *)
(* Four specifications are defined:                                        *)
(*   SpecAsm  one participant builds the enter-pool / exit-pool batch call *)
(*            by call, for every strategy of StrategySet;                  *)
(*   Spec     two participants run the rounds of one period: the strategy  *)
(*            evaluation, the enter pipeline, the exit pipeline, up to the *)
(*            reset;                                                       *)
(*   SpecSig  four participants run a signature round;                     *)
(*   SpecSend three participants run a send round, with the round's        *)
(*            timeout scheduled fairly.                                    *)
(***************************************************************************)
EXTENDS Integers, Sequences, FiniteSets, TLC

VARIABLES
    period_state,     \* the agreed facts of the period (PeriodState)
    current_round,    \* id of the round the substrate is collecting payloads for
    round_payloads,   \* payloads the substrate holds for the current round, by sender
    pc,               \* position of each participant's behaviour
    entropy,          \* key-generation entropy of each participant's behaviour execution
    multi_send_txs,   \* local list of sub-calls of each participant
    payload,          \* local payload of each participant
    attempts,         \* receipt polls made by each participant's validation
    calls,            \* requests each participant's behaviour execution has made
    validation,       \* locals of each participant's has_transaction_been_sent
    chain             \* what the blockchain has been asked to do

vars == <<period_state, current_round, round_payloads, pc, entropy,
          multi_send_txs, payload, attempts, calls, validation, chain>>

----------------------------------------------------------------------------
(* Program constants.                                                      *)

ETHER_VALUE == 0
\* Unsigned 256-bit integers that do not fit a machine integer are kept as
\* their 16 digits in base 2^16, least significant first.
Uint256(n) == [i \in 1 .. 16 |-> IF i = 1 THEN n ELSE 0]
\* 2 ** 256 - 1
MAX_ALLOWANCE == [i \in 1 .. 16 |-> 2 ^ 16 - 1]
CURRENT_BLOCK_TIMESTAMP == 0
HASH_HEX_LEN == 64

(* Bounds of the model.                                                    *)
MaxAmount == 1
MaxBroadcasts == 2
RetryAttempts == 2
\* params.retry_timeout, in seconds
RetryTimeout == 10

\* the agents, and those of them that registered for the period (a period
\* of the enter and the exit pipeline is followed with two participants, a
\* send round on its own with three)
Agents == {"agent_1", "agent_2", "agent_3", "agent_4"}
Participants == {"agent_1", "agent_2"}
SendParticipants == {"agent_1", "agent_2", "agent_3"}
\* what the key generator of one behaviour execution can draw.  The generator
\* is random: the executions of the participants can all draw differently, and
\* nothing in the code keeps two of them from drawing the same.
Entropy == {"e1", "e2", "e3"}
\* what a participant can observe as the randomness of a round
Randomness == {0, 1}
\* no randomness is agreed
NoRandomness == -1
\* the position of an agent in the order of the addresses
AgentIndex(a) ==
    CASE a = "agent_1" -> 1 [] a = "agent_2" -> 2
      [] a = "agent_3" -> 3 [] a = "agent_4" -> 4
None == "None"

SAFE_CONTRACT_ADDRESS == "0xSAFE"
MULTISEND_CONTRACT_ADDRESS == "0xMULTISEND"

----------------------------------------------------------------------------
(* Strings of hexadecimal text.  The text "0x" + n hex digits that encodes *)
(* the value v is kept as the slice [off, off + len) of that text.         *)

HexText(v, n) == [of |-> v, off |-> 0, len |-> n + 2]

\* no text at all (the field is not set)
NoHash == [of |-> [none |-> None], off |-> 0, len |-> 0]
IsSet(text) == text.len > 0

\* the hash of the n-th transaction handed to the chain
ChainTxHash(n) == <<"tx", n>>
\* send_raw_transaction returned None / final_tx_hash is not set
NoTxHash == <<"tx", 0>>

\* s[k:]
DropFirst(s, k) ==
    LET d == IF k < s.len THEN k ELSE s.len
    IN  [of |-> s.of, off |-> s.off + d, len |-> s.len - d]

\* s[:k]
TakeFirst(s, k) ==
    [of |-> s.of, off |-> s.off, len |-> IF k < s.len THEN k ELSE s.len]

----------------------------------------------------------------------------
(* The strategy.                                                           *)

AmountValues == (0 .. MaxAmount) \cup {100 + j : j \in 0 .. MaxAmount}

Strategy(native, amount_a, min_a, amount_b, min_b) ==
    [action |-> "GO",
     chain |-> "Fantom",
     base |-> [address |-> "0xUSDT_ADDRESS", balance |-> 100],
     pair |-> [token_a |-> [ticker |-> "FTM", address |-> "0xFTM_ADDRESS",
                            amount |-> amount_a, amount_min |-> min_a,
                            is_native |-> native],
               token_b |-> [ticker |-> "BOO", address |-> "0xBOO_ADDRESS",
                            amount |-> amount_b, amount_min |-> min_b]],
     router_address |-> "0x0000000000000000000000000000",
     liquidity_to_remove |-> 1]

get_strategy_update == Strategy(TRUE, 1, 1, 1, 1)

StrategySet ==
    {Strategy(n, aa, ma, ab, mb) :
        n \in BOOLEAN, aa \in AmountValues, ma \in AmountValues,
        ab \in AmountValues, mb \in AmountValues}

NoStrategy == [action |-> None]

----------------------------------------------------------------------------
(* The Transaction Assembler.                                              *)

\* the largest amount whose product with 99 is a 32-bit integer
MaxExactAmount == 21691754

\* faulty variant: the factor is 1.01
ToleranceAbove(x) ==
    CASE x \in 0 .. MaxExactAmount -> (x * 101) \div 100

\* int(x * 0.99): the product is a 64-bit float, truncated toward zero.  For
\* every integer 0 <= x < 142159079146801 the truncated float product is the
\* exact floor of 99 x / 100; from 142159079146801 on the rounding of the float
\* makes the two differ (142159079146801 gives 140737488355333, one more than
\* the floor).  The operator is defined on 0 .. MaxExactAmount only, where it
\* is the code's value.
Tolerance(x) ==
    CASE x \in 0 .. MaxExactAmount -> (x * 99) \div 100

\* crypto_registry.make(EthereumCrypto.identifier).address: the address of a
\* key generated on the spot.  The n-th key generated by an execution whose
\* generator entropy is e.
MakeAddress(e, n) == <<"key", e, n>>

\* one element of multi_send_txs
MultiSendTx(to, data) ==
    [operation |-> "CALL", to |-> to, value |-> 1, data |-> data]

\* faulty variant: the swap of leg A never takes the native variant
EnterSwapANeverNative(strategy, safe, e) ==
    MultiSendTx(MakeAddress(e, 1),
        [contract_address |-> strategy.router_address,
         contract_id |-> "uniswap_v2_router_02",
         method_name |-> "swap_exact_tokens_for_tokens",
         amount_in |-> strategy.pair.token_a.amount,
         amount_out_min |-> strategy.pair.token_a.amount_min,
         path |-> <<strategy.base.address, strategy.pair.token_a.address>>,
         to |-> safe,
         deadline |-> CURRENT_BLOCK_TIMESTAMP + 300])

EnterSwapA(strategy, safe, e) ==
    MultiSendTx(MakeAddress(e, 1),
        [contract_address |-> strategy.router_address,
         contract_id |-> "uniswap_v2_router_02",
         method_name |-> IF strategy.pair.token_a.is_native
                            THEN "swap_exact_tokens_for_ETH"
                            ELSE "swap_exact_tokens_for_tokens",
         amount_in |-> strategy.pair.token_a.amount,
         amount_out_min |-> strategy.pair.token_a.amount_min,
         path |-> <<strategy.base.address, strategy.pair.token_a.address>>,
         to |-> safe,
         deadline |-> CURRENT_BLOCK_TIMESTAMP + 300])

\* faulty variant: the swap of leg B follows leg A's native flag
EnterSwapBNativeLikeA(strategy, safe, e) ==
    MultiSendTx(MakeAddress(e, 2),
        [contract_address |-> strategy.router_address,
         contract_id |-> "uniswap_v2_router_02",
         method_name |-> IF strategy.pair.token_a.is_native
                            THEN "swap_exact_tokens_for_ETH"
                            ELSE "swap_exact_tokens_for_tokens",
         amount_in |-> strategy.pair.token_b.amount,
         amount_out_min |-> strategy.pair.token_b.amount_min,
         path |-> <<strategy.base.address, strategy.pair.token_b.address>>,
         to |-> safe,
         deadline |-> CURRENT_BLOCK_TIMESTAMP + 300])

EnterSwapB(strategy, safe, e) ==
    MultiSendTx(MakeAddress(e, 2),
        [contract_address |-> strategy.router_address,
         contract_id |-> "uniswap_v2_router_02",
         method_name |-> "swap_exact_tokens_for_tokens",
         amount_in |-> strategy.pair.token_b.amount,
         amount_out_min |-> strategy.pair.token_b.amount_min,
         path |-> <<strategy.base.address, strategy.pair.token_b.address>>,
         to |-> safe,
         deadline |-> CURRENT_BLOCK_TIMESTAMP + 300])

EnterAllowanceA(strategy, e) ==
    MultiSendTx(MakeAddress(e, 3),
        [contract_address |-> strategy.pair.token_a.address,
         contract_id |-> "uniswap_v2_erc20",
         method_name |-> "approve",
         spender |-> strategy.router_address,
         value |-> MAX_ALLOWANCE])

\* faulty variant: the allowance of leg B is the amount of leg B
EnterAllowanceBOfAmount(strategy, e) ==
    MultiSendTx(MakeAddress(e, 4),
        [contract_address |-> strategy.pair.token_b.address,
         contract_id |-> "uniswap_v2_erc20",
         method_name |-> "approve",
         spender |-> strategy.router_address,
         value |-> Uint256(strategy.pair.token_b.amount)])

EnterAllowanceB(strategy, e) ==
    MultiSendTx(MakeAddress(e, 4),
        [contract_address |-> strategy.pair.token_b.address,
         contract_id |-> "uniswap_v2_erc20",
         method_name |-> "approve",
         spender |-> strategy.router_address,
         value |-> MAX_ALLOWANCE])

\* faulty variant: the native variant is never chosen
EnterAddLiquidityTokensOnly(strategy, safe, e) ==
    MultiSendTx(MakeAddress(e, 5),
        [contract_address |-> strategy.router_address,
         contract_id |-> "uniswap_v2_router_02",
         method_name |-> "add_liquidity",
         token_a |-> strategy.pair.token_a.address,
         token_b |-> strategy.pair.token_b.address,
         amount_a_desired |-> strategy.pair.token_a.amount,
         amount_b_desired |-> strategy.pair.token_b.amount,
         amount_a_min |-> Tolerance(strategy.pair.token_a.amount_min),
         amount_b_min |-> Tolerance(strategy.pair.token_b.amount_min),
         to |-> safe,
         deadline |-> CURRENT_BLOCK_TIMESTAMP + 300])

EnterAddLiquidity(strategy, safe, e) ==
    IF strategy.pair.token_a.is_native
    THEN MultiSendTx(MakeAddress(e, 5),
            [contract_address |-> strategy.router_address,
             contract_id |-> "uniswap_v2_router_02",
             method_name |-> "add_liquidity_ETH",
             token |-> strategy.pair.token_b.address,
             amount_token_desired |-> strategy.pair.token_b.amount,
             amount_token_min |-> Tolerance(strategy.pair.token_b.amount_min),
             amount_ETH_min |-> Tolerance(strategy.pair.token_a.amount_min),
             to |-> safe,
             deadline |-> CURRENT_BLOCK_TIMESTAMP + 300])
    ELSE MultiSendTx(MakeAddress(e, 5),
            [contract_address |-> strategy.router_address,
             contract_id |-> "uniswap_v2_router_02",
             method_name |-> "add_liquidity",
             token_a |-> strategy.pair.token_a.address,
             token_b |-> strategy.pair.token_b.address,
             amount_a_desired |-> strategy.pair.token_a.amount,
             amount_b_desired |-> strategy.pair.token_b.amount,
             amount_a_min |-> Tolerance(strategy.pair.token_a.amount_min),
             amount_b_min |-> Tolerance(strategy.pair.token_b.amount_min),
             to |-> safe,
             deadline |-> CURRENT_BLOCK_TIMESTAMP + 300])

\* faulty variant: the 1% tolerance of the add-liquidity call is applied
ExitRemoveLiquidityWithTolerance(strategy, safe, e) ==
    IF strategy.pair.token_a.is_native
    THEN MultiSendTx(MakeAddress(e, 1),
            [contract_address |-> strategy.router_address,
             contract_id |-> "uniswap_v2_router_02",
             method_name |-> "remove_liquidity_ETH",
             token |-> strategy.pair.token_b.address,
             liquidity |-> strategy.liquidity_to_remove,
             amount_token_min |-> Tolerance(strategy.pair.token_b.amount_min),
             amount_ETH_min |-> Tolerance(strategy.pair.token_a.amount_min),
             to |-> safe,
             deadline |-> CURRENT_BLOCK_TIMESTAMP + 300])
    ELSE MultiSendTx(MakeAddress(e, 1),
            [contract_address |-> strategy.router_address,
             contract_id |-> "uniswap_v2_router_02",
             method_name |-> "remove_liquidity",
             token_a |-> strategy.pair.token_a.address,
             token_b |-> strategy.pair.token_b.address,
             liquidity |-> strategy.liquidity_to_remove,
             amount_a_min |-> Tolerance(strategy.pair.token_a.amount_min),
             amount_b_min |-> Tolerance(strategy.pair.token_b.amount_min),
             to |-> safe,
             deadline |-> CURRENT_BLOCK_TIMESTAMP + 300])

ExitRemoveLiquidity(strategy, safe, e) ==
    IF strategy.pair.token_a.is_native
    THEN MultiSendTx(MakeAddress(e, 1),
            [contract_address |-> strategy.router_address,
             contract_id |-> "uniswap_v2_router_02",
             method_name |-> "remove_liquidity_ETH",
             token |-> strategy.pair.token_b.address,
             liquidity |-> strategy.liquidity_to_remove,
             amount_token_min |-> strategy.pair.token_b.amount_min,
             amount_ETH_min |-> strategy.pair.token_a.amount_min,
             to |-> safe,
             deadline |-> CURRENT_BLOCK_TIMESTAMP + 300])
    ELSE MultiSendTx(MakeAddress(e, 1),
            [contract_address |-> strategy.router_address,
             contract_id |-> "uniswap_v2_router_02",
             method_name |-> "remove_liquidity",
             token_a |-> strategy.pair.token_a.address,
             token_b |-> strategy.pair.token_b.address,
             liquidity |-> strategy.liquidity_to_remove,
             amount_a_min |-> strategy.pair.token_a.amount_min,
             amount_b_min |-> strategy.pair.token_b.amount_min,
             to |-> safe,
             deadline |-> CURRENT_BLOCK_TIMESTAMP + 300])

\* faulty variant: the allowance is removed on token B's contract
ExitAllowanceAOnTokenB(strategy, e) ==
    MultiSendTx(MakeAddress(e, 2),
        [contract_address |-> strategy.pair.token_b.address,
         contract_id |-> "uniswap_v2_erc20",
         method_name |-> "approve",
         spender |-> strategy.router_address,
         value |-> Uint256(0)])

ExitAllowanceA(strategy, e) ==
    MultiSendTx(MakeAddress(e, 2),
        [contract_address |-> strategy.pair.token_a.address,
         contract_id |-> "uniswap_v2_erc20",
         method_name |-> "approve",
         spender |-> strategy.router_address,
         value |-> Uint256(0)])

ExitAllowanceB(strategy, e) ==
    MultiSendTx(MakeAddress(e, 3),
        [contract_address |-> strategy.pair.token_b.address,
         contract_id |-> "uniswap_v2_erc20",
         method_name |-> "approve",
         spender |-> strategy.router_address,
         value |-> Uint256(0)])

\* faulty variant: the swap path of the enter batch is kept
ExitSwapAEnterPath(strategy, safe, e) ==
    MultiSendTx(MakeAddress(e, 4),
        [contract_address |-> strategy.router_address,
         contract_id |-> "uniswap_v2_router_02",
         method_name |-> IF strategy.pair.token_a.is_native
                            THEN "swap_exact_ETH_for_tokens"
                            ELSE "swap_exact_tokens_for_tokens",
         amount_in |-> strategy.pair.token_a.amount,
         amount_out_min |-> strategy.pair.token_a.amount_min,
         path |-> <<strategy.base.address, strategy.pair.token_a.address>>,
         to |-> safe,
         deadline |-> CURRENT_BLOCK_TIMESTAMP + 300])

ExitSwapA(strategy, safe, e) ==
    IF strategy.pair.token_a.is_native
    THEN MultiSendTx(MakeAddress(e, 4),
            [contract_address |-> strategy.router_address,
             contract_id |-> "uniswap_v2_router_02",
             method_name |-> "swap_exact_ETH_for_tokens",
             amount_out_min |-> strategy.pair.token_a.amount_min,
             path |-> <<strategy.pair.token_a.address, strategy.base.address>>,
             to |-> safe,
             deadline |-> CURRENT_BLOCK_TIMESTAMP + 300])
    ELSE MultiSendTx(MakeAddress(e, 4),
            [contract_address |-> strategy.router_address,
             contract_id |-> "uniswap_v2_router_02",
             method_name |-> "swap_exact_tokens_for_tokens",
             amount_in |-> strategy.pair.token_a.amount,
             amount_out_min |-> strategy.pair.token_a.amount_min,
             path |-> <<strategy.pair.token_a.address, strategy.base.address>>,
             to |-> safe,
             deadline |-> CURRENT_BLOCK_TIMESTAMP + 300])

ExitSwapB(strategy, safe, e) ==
    MultiSendTx(MakeAddress(e, 5),
        [contract_address |-> strategy.router_address,
         contract_id |-> "uniswap_v2_router_02",
         method_name |-> "swap_exact_tokens_for_tokens",
         amount_in |-> strategy.pair.token_b.amount,
         amount_out_min |-> strategy.pair.token_b.amount_min,
         path |-> <<strategy.pair.token_b.address, strategy.base.address>>,
         to |-> safe,
         deadline |-> CURRENT_BLOCK_TIMESTAMP + 300])

\* MultiSendContract.get_tx_data: the encoding of the batch
MultisendData(safe, txs) ==
    [contract_address |-> safe,
     contract_id |-> "multisend",
     contract_callable |-> "get_tx_data",
     multi_send_txs |-> txs]

\* GnosisSafeContract.get_raw_safe_transaction_hash: "0x" + 64 hex digits
RawSafeTransactionHash(to_address, value, data) ==
    HexText([to_address |-> to_address, value |-> value, data |-> data],
            HASH_HEX_LEN)

\* faulty variant: the hash keeps its leading "0x"
SafeTxHashWithPrefix(multisend, safe, txs) ==
    RawSafeTransactionHash(multisend, ETHER_VALUE, MultisendData(safe, txs))

\* safe_tx_hash[2:] of the hash of the batch
SafeTxHash(multisend, safe, txs) ==
    DropFirst(RawSafeTransactionHash(multisend, ETHER_VALUE,
                                     MultisendData(safe, txs)), 2)

\* the whole local block of the enter-pool / exit-pool tx-hash behaviour
EnterPoolMultiSendTxs(strategy, safe, e) ==
    <<EnterSwapA(strategy, safe, e), EnterSwapB(strategy, safe, e),
      EnterAllowanceA(strategy, e), EnterAllowanceB(strategy, e),
      EnterAddLiquidity(strategy, safe, e)>>

ExitPoolMultiSendTxs(strategy, safe, e) ==
    <<ExitRemoveLiquidity(strategy, safe, e),
      ExitAllowanceA(strategy, e), ExitAllowanceB(strategy, e),
      ExitSwapA(strategy, safe, e), ExitSwapB(strategy, safe, e)>>

----------------------------------------------------------------------------
(* Rounds, behaviours and the agreement substrate.                         *)

\* the rounds of the safe deployment, which is over when the model starts
DeploySafeRandomnessRound == "DeploySafeRandomnessRound"
DeploySafeSelectKeeperRound == "DeploySafeSelectKeeperRound"
StrategyEvaluationRound == "StrategyEvaluationRound"
EnterPoolRandomnessRound == "EnterPoolRandomnessRound"
EnterPoolSelectKeeperRound == "EnterPoolSelectKeeperRound"
EnterPoolTransactionHashRound == "EnterPoolTransactionHashRound"
EnterPoolTransactionSignatureRound == "EnterPoolTransactionSignatureRound"
EnterPoolTransactionSendRound == "EnterPoolTransactionSendRound"
EnterPoolTransactionValidationRound == "EnterPoolTransactionValidationRound"
ExitPoolRandomnessRound == "ExitPoolRandomnessRound"
ExitPoolSelectKeeperRound == "ExitPoolSelectKeeperRound"
ExitPoolTransactionHashRound == "ExitPoolTransactionHashRound"
ExitPoolTransactionSignatureRound == "ExitPoolTransactionSignatureRound"
ExitPoolTransactionSendRound == "ExitPoolTransactionSendRound"
ExitPoolTransactionValidationRound == "ExitPoolTransactionValidationRound"
ResetRound == "ResetRound"

\* faulty variant: the send behaviours match the signature rounds
MatchingRoundSendInSignature(state_id) ==
    CASE state_id = "deploy_safe_randomness" -> DeploySafeRandomnessRound
      [] state_id = "deploy_safe_select_keeper" -> DeploySafeSelectKeeperRound
      [] state_id = "strategy_evaluation" -> StrategyEvaluationRound
      [] state_id = "enter_pool_randomness" -> EnterPoolRandomnessRound
      [] state_id = "enter_pool_select_keeper" -> EnterPoolSelectKeeperRound
      [] state_id = "enter_pool_tx_hash" -> EnterPoolTransactionHashRound
      [] state_id = "enter_pool_tx_signature" -> EnterPoolTransactionSignatureRound
      [] state_id = "enter_pool_tx_send" -> EnterPoolTransactionSignatureRound
      [] state_id = "enter_pool_tx_validation" -> EnterPoolTransactionValidationRound
      [] state_id = "exit_pool_randomness" -> ExitPoolRandomnessRound
      [] state_id = "exit_pool_select_keeper" -> ExitPoolSelectKeeperRound
      [] state_id = "exit_pool_tx_hash" -> ExitPoolTransactionHashRound
      [] state_id = "exit_pool_tx_signature" -> ExitPoolTransactionSignatureRound
      [] state_id = "exit_pool_tx_send" -> ExitPoolTransactionSignatureRound
      [] state_id = "exit_pool_tx_validation" -> ExitPoolTransactionValidationRound

\* state_id -> matching_round of the behaviours of this skill
MatchingRound(state_id) ==
    CASE state_id = "deploy_safe_randomness" -> DeploySafeRandomnessRound
      [] state_id = "deploy_safe_select_keeper" -> DeploySafeSelectKeeperRound
      [] state_id = "strategy_evaluation" -> StrategyEvaluationRound
      [] state_id = "enter_pool_randomness" -> EnterPoolRandomnessRound
      [] state_id = "enter_pool_select_keeper" -> EnterPoolSelectKeeperRound
      [] state_id = "enter_pool_tx_hash" -> EnterPoolTransactionHashRound
      [] state_id = "enter_pool_tx_signature" -> EnterPoolTransactionSignatureRound
      [] state_id = "enter_pool_tx_send" -> EnterPoolTransactionSendRound
      [] state_id = "enter_pool_tx_validation" -> EnterPoolTransactionValidationRound
      [] state_id = "exit_pool_randomness" -> ExitPoolRandomnessRound
      [] state_id = "exit_pool_select_keeper" -> ExitPoolSelectKeeperRound
      [] state_id = "exit_pool_tx_hash" -> ExitPoolTransactionHashRound
      [] state_id = "exit_pool_tx_signature" -> ExitPoolTransactionSignatureRound
      [] state_id = "exit_pool_tx_send" -> ExitPoolTransactionSendRound
      [] state_id = "exit_pool_tx_validation" -> ExitPoolTransactionValidationRound

\* the behaviour with this state_id is the one the sequencer runs now
Runs(state_id) == MatchingRound(state_id) = current_round

SignatureBehaviours == {"enter_pool_tx_signature", "exit_pool_tx_signature"}
SendBehaviours == {"enter_pool_tx_send", "exit_pool_tx_send"}
ValidationBehaviours == {"enter_pool_tx_validation", "exit_pool_tx_validation"}
HashRounds == {EnterPoolTransactionHashRound, ExitPoolTransactionHashRound}
SignatureRounds == {EnterPoolTransactionSignatureRound,
                    ExitPoolTransactionSignatureRound}
SendRounds == {EnterPoolTransactionSendRound, ExitPoolTransactionSendRound}
ValidationRounds == {EnterPoolTransactionValidationRound,
                     ExitPoolTransactionValidationRound}
SelectKeeperRounds == {EnterPoolSelectKeeperRound, ExitPoolSelectKeeperRound}
RandomnessRounds == {EnterPoolRandomnessRound, ExitPoolRandomnessRound}
RandomnessBehaviours == {"enter_pool_randomness", "exit_pool_randomness"}
SelectKeeperBehaviours == {"enter_pool_select_keeper", "exit_pool_select_keeper"}

\* The transition table, for the event DONE; every other event re-enters the
\* same round.  A period is one run of the enter pipeline followed by one run
\* of the exit pipeline; each pipeline is randomness, keeper selection, tx
\* hash, signature, send, validation; the reset follows the exit pipeline.
NextRound(round) ==
    CASE round = StrategyEvaluationRound -> EnterPoolRandomnessRound
      [] round = EnterPoolRandomnessRound -> EnterPoolSelectKeeperRound
      [] round = EnterPoolSelectKeeperRound -> EnterPoolTransactionHashRound
      [] round = EnterPoolTransactionHashRound -> EnterPoolTransactionSignatureRound
      [] round = EnterPoolTransactionSignatureRound -> EnterPoolTransactionSendRound
      [] round = EnterPoolTransactionSendRound -> EnterPoolTransactionValidationRound
      [] round = EnterPoolTransactionValidationRound -> ExitPoolRandomnessRound
      [] round = ExitPoolRandomnessRound -> ExitPoolSelectKeeperRound
      [] round = ExitPoolSelectKeeperRound -> ExitPoolTransactionHashRound
      [] round = ExitPoolTransactionHashRound -> ExitPoolTransactionSignatureRound
      [] round = ExitPoolTransactionSignatureRound -> ExitPoolTransactionSendRound
      [] round = ExitPoolTransactionSendRound -> ExitPoolTransactionValidationRound
      [] round = ExitPoolTransactionValidationRound -> ResetRound

\* faulty variant: more than two thirds of the participants conclude a round
QuorumSizeTwoThirds == (2 * Cardinality(period_state.participants)) \div 3 + 1

\* number of payloads that concludes a round
QuorumSize == Cardinality(period_state.participants)

Payload(sender, value) == [sender |-> sender, value |-> value]

\* the behaviour has built no payload
NoPayload == [none |-> None]

Senders(payloads) == {p.sender : p \in payloads}
Voters(payloads, v) == {p.sender : p \in {q \in payloads : q.value = v}}
Values(payloads) == {p.value : p \in payloads}

\* a value a quorum of senders submitted
HasQuorum(payloads, v) == Cardinality(Voters(payloads, v)) >= QuorumSize

\* no value can reach a quorum any more
NoMajorityPossible(payloads) ==
    LET missing == Cardinality(period_state.participants \ Senders(payloads))
    IN  /\ payloads # {}
        /\ \A v \in Values(payloads) :
              Cardinality(Voters(payloads, v)) + missing < QuorumSize

----------------------------------------------------------------------------
(* Initial state: the period starts at the strategy evaluation with the    *)
(* safe deployed.                                                          *)

InitPeriodState ==
    [participants |-> Participants,
     safe_contract_address |-> SAFE_CONTRACT_ADDRESS,
     multisend_contract_address |-> MULTISEND_CONTRACT_ADDRESS,
     most_voted_randomness |-> NoRandomness,
     most_voted_keeper_address |-> None,
     most_voted_strategy |-> NoStrategy,
     most_voted_tx_hash |-> NoHash,
     participant_to_signature |-> {},
     final_tx_hash |-> NoTxHash,
     most_voted_validation |-> "unset"]

\* has_transaction_been_sent has not got any answer yet
NoValidation ==
    [response |-> None, is_settled |-> FALSE, performative |-> None,
     verified |-> FALSE]

InitLocals ==
    /\ round_payloads = {}
    /\ pc = [a \in Agents |-> "start"]
    /\ entropy = [a \in Agents |-> None]
    /\ multi_send_txs = [a \in Agents |-> <<>>]
    /\ payload = [a \in Agents |-> NoPayload]
    /\ attempts = [a \in Agents |-> 0]
    /\ calls = [a \in Agents |-> <<>>]
    /\ validation = [a \in Agents |-> NoValidation]
    /\ chain = [requests |-> {}, broadcasts |-> <<>>]

Init ==
    /\ period_state = InitPeriodState
    /\ current_round = StrategyEvaluationRound
    /\ InitLocals

----------------------------------------------------------------------------
(* The requests a behaviour makes, as the log of its execution keeps them. *)

\* get_contract_api_response(**kwargs)
ContractCall(kwargs) == [call |-> "get_contract_api_response", request |-> kwargs]

\* _send_signing_request(raw_message, is_deprecated_mode)
SigningCall(raw_message, is_deprecated_mode) ==
    [call |-> "_send_signing_request",
     request |-> [raw_message |-> raw_message,
                  is_deprecated_mode |-> is_deprecated_mode]]

\* send_raw_transaction(transaction)
SendRawTransactionCall(transaction) ==
    [call |-> "send_raw_transaction", request |-> transaction]

\* one attempt of get_transaction_receipt(tx_digest, retry_timeout,
\* retry_attempts)
GetTransactionReceiptCall(tx_digest) ==
    [call |-> "get_transaction_receipt", request |-> [tx_digest |-> tx_digest]]

\* the pause of get_transaction_receipt between two attempts
SleepCall(seconds) == [call |-> "sleep", request |-> [seconds |-> seconds]]

\* the arguments of get_raw_safe_transaction_hash
RawSafeTransactionHashArguments(state, txs) ==
    [contract_address |-> state.safe_contract_address,
     contract_id |-> "gnosis_safe",
     contract_callable |-> "get_raw_safe_transaction_hash",
     to_address |-> state.multisend_contract_address,
     value |-> ETHER_VALUE,
     data |-> MultisendData(state.safe_contract_address, txs)]

----------------------------------------------------------------------------
(* Steps every behaviour shares.                                           *)

\* the locals of the behaviours of the agents in gone are dropped
ResetLocals(gone) ==
    /\ entropy' = [a \in Agents |-> IF a \in gone THEN None ELSE entropy[a]]
    /\ multi_send_txs' = [a \in Agents |->
                            IF a \in gone THEN <<>> ELSE multi_send_txs[a]]
    /\ payload' = [a \in Agents |-> IF a \in gone THEN NoPayload ELSE payload[a]]
    /\ attempts' = [a \in Agents |-> IF a \in gone THEN 0 ELSE attempts[a]]
    /\ calls' = [a \in Agents |-> IF a \in gone THEN <<>> ELSE calls[a]]
    /\ validation' = [a \in Agents |->
                            IF a \in gone THEN NoValidation ELSE validation[a]]

\* send_a2a_transaction(payload): the payload reaches the substrate
SendA2ATransaction(a) ==
    /\ pc[a] = "send"
    /\ round_payloads' = round_payloads \cup {payload[a]}
    /\ pc' = [pc EXCEPT ![a] = "wait"]
    /\ ResetLocals({a})
    /\ UNCHANGED <<period_state, current_round, chain>>

\* wait_until_round_end() has returned: set_done(), and the sequencer starts
\* the behaviour that matches the current round
SetDone(a) ==
    /\ pc[a] = "round_ended"
    /\ pc' = [pc EXCEPT ![a] = "start"]
    /\ UNCHANGED <<period_state, current_round, round_payloads,
                   entropy, multi_send_txs, payload, attempts, calls, validation, chain>>

\* the round ends with the event and the table names the next round: waiting
\* behaviours are resumed, behaviours that had not reached the wait are
\* stopped, and the next round starts empty
EndRound(event, next, state) ==
    /\ period_state' = state
    /\ current_round' = next
    /\ round_payloads' = {}
    /\ pc' = [a \in Agents |->
                CASE pc[a] = "wait" -> "round_ended"
                  [] pc[a] = "round_ended" -> "round_ended"
                  [] pc[a] = "error" -> "error"
                  [] OTHER -> "start"]
    /\ ResetLocals(Agents)
    /\ UNCHANGED chain

----------------------------------------------------------------------------
(* StrategyEvaluationBehaviour.                                            *)

\* StrategyType.value
StrategyTypeValue(action) == IF action = "GO" THEN "go" ELSE "wait"

StrategyEvaluationAct(a) ==
    /\ Runs("strategy_evaluation")
    /\ pc[a] = "start"
    /\ LET strategy == get_strategy_update
       IN  payload' = [payload EXCEPT ![a] =
                Payload(a, [strategy EXCEPT !.action = StrategyTypeValue(@)])]
    /\ pc' = [pc EXCEPT ![a] = "send"]
    /\ UNCHANGED <<period_state, current_round, round_payloads,
                   entropy, multi_send_txs, attempts, calls, validation, chain>>

----------------------------------------------------------------------------
(* EnterPoolRandomnessBehaviour, ExitPoolRandomnessBehaviour,              *)
(* EnterPoolSelectKeeperBehaviour, ExitPoolSelectKeeperBehaviour: the      *)
(* skill only names their state_id and matching_round.  Each participant   *)
(* observes the randomness on its own and proposes it; the keeper is the   *)
(* participant the agreed randomness selects.                              *)

RandomnessPayload(sender, randomness) == Payload(sender, randomness)

RandomnessAct(a) ==
    /\ \E b \in RandomnessBehaviours : Runs(b)
    /\ pc[a] = "start"
    /\ \E randomness \in Randomness :
          payload' = [payload EXCEPT ![a] = RandomnessPayload(a, randomness)]
    /\ pc' = [pc EXCEPT ![a] = "send"]
    /\ UNCHANGED <<period_state, current_round, round_payloads,
                   entropy, multi_send_txs, attempts, calls, validation, chain>>

\* the participant the randomness selects
SelectedKeeper(randomness, participants) ==
    LET n == Cardinality(participants)
    IN  CHOOSE a \in participants :
            Cardinality({b \in participants : AgentIndex(b) < AgentIndex(a)})
                = randomness % n

SelectKeeperPayload(sender, keeper) == Payload(sender, keeper)

SelectKeeperAct(a) ==
    /\ \E b \in SelectKeeperBehaviours : Runs(b)
    /\ pc[a] = "start"
    /\ payload' = [payload EXCEPT ![a] =
            SelectKeeperPayload(a,
                SelectedKeeper(period_state.most_voted_randomness,
                               period_state.participants))]
    /\ pc' = [pc EXCEPT ![a] = "send"]
    /\ UNCHANGED <<period_state, current_round, round_payloads,
                   entropy, multi_send_txs, attempts, calls, validation, chain>>

----------------------------------------------------------------------------
(* EnterPoolTransactionHashBehaviour, ExitPoolTransactionHashBehaviour,    *)
(* resumption by resumption: the behaviour is suspended in every contract  *)
(* call of its local block, and a step is what it does between two         *)
(* suspensions: it takes the answer of the request it was suspended in and *)
(* makes the next request.  pc stays "start" while the sub-calls are       *)
(* collected: the requests made and the sub-calls appended tell where the  *)
(* behaviour is suspended.  The first append starts the key generation.    *)

TransactionHashPayload(sender, tx_hash) == Payload(sender, tx_hash)

\* the get_method_data request whose answer is the data of the sub-call (the
\* request does not depend on the sub-call's `to`)
GetMethodDataCall(tx) == ContractCall(tx.data)

\* the get_tx_data request for a batch
GetTxDataCall(state, txs) ==
    ContractCall(MultisendData(state.safe_contract_address, txs))

\* the first resumption of the behaviour: up to its first request
AsmRequest(a, state_id, request) ==
    /\ Runs(state_id)
    /\ pc[a] = "start"
    /\ calls[a] = <<>>
    /\ multi_send_txs[a] = <<>>
    /\ calls' = [calls EXCEPT ![a] = Append(@, request)]
    /\ UNCHANGED <<period_state, current_round, round_payloads, pc, entropy,
                   multi_send_txs, payload, attempts, validation, chain>>

\* the answer of the n-th get_method_data request: multi_send_txs.append(tx)
\* as the n-th append of the behaviour, and the next request
AsmAppend(a, state_id, n, tx, e, request) ==
    /\ Runs(state_id)
    /\ pc[a] = "start"
    /\ Len(calls[a]) = n
    /\ Len(multi_send_txs[a]) = n - 1
    /\ entropy' = [entropy EXCEPT ![a] = e]
    /\ multi_send_txs' = [multi_send_txs EXCEPT ![a] = Append(@, tx)]
    /\ calls' = [calls EXCEPT ![a] = Append(@, request)]
    /\ UNCHANGED <<period_state, current_round, round_payloads, pc, payload,
                   attempts, validation, chain>>

\* up to the request for the data of the swap of leg A
AsmEnterRequestSwapA(a) ==
    AsmRequest(a, "enter_pool_tx_hash",
               GetMethodDataCall(
                   EnterSwapA(period_state.most_voted_strategy,
                              period_state.safe_contract_address, entropy[a])))

\* the data of the swap of leg A is in: the sub-call is appended and the data
\* of the swap of leg B is requested
AsmEnterSwapA(a) ==
    \E e \in Entropy :
        AsmAppend(a, "enter_pool_tx_hash", 1,
                  EnterSwapA(period_state.most_voted_strategy,
                             period_state.safe_contract_address, e), e,
                  GetMethodDataCall(
                      EnterSwapB(period_state.most_voted_strategy,
                                 period_state.safe_contract_address, e)))

AsmEnterSwapB(a) ==
    AsmAppend(a, "enter_pool_tx_hash", 2,
              EnterSwapB(period_state.most_voted_strategy,
                         period_state.safe_contract_address, entropy[a]),
              entropy[a],
              GetMethodDataCall(
                  EnterAllowanceA(period_state.most_voted_strategy, entropy[a])))

AsmEnterAllowanceA(a) ==
    AsmAppend(a, "enter_pool_tx_hash", 3,
              EnterAllowanceA(period_state.most_voted_strategy, entropy[a]),
              entropy[a],
              GetMethodDataCall(
                  EnterAllowanceB(period_state.most_voted_strategy, entropy[a])))

AsmEnterAllowanceB(a) ==
    AsmAppend(a, "enter_pool_tx_hash", 4,
              EnterAllowanceB(period_state.most_voted_strategy, entropy[a]),
              entropy[a],
              GetMethodDataCall(
                  EnterAddLiquidity(period_state.most_voted_strategy,
                                    period_state.safe_contract_address,
                                    entropy[a])))

\* the last sub-call is appended and the encoding of the batch is requested
AsmEnterAddLiquidity(a) ==
    LET tx == EnterAddLiquidity(period_state.most_voted_strategy,
                                period_state.safe_contract_address, entropy[a])
    IN  AsmAppend(a, "enter_pool_tx_hash", 5, tx, entropy[a],
                  GetTxDataCall(period_state, Append(multi_send_txs[a], tx)))

\* up to the request for the data of the removal of the liquidity
AsmExitRequestRemoveLiquidity(a) ==
    AsmRequest(a, "exit_pool_tx_hash",
               GetMethodDataCall(
                   ExitRemoveLiquidity(period_state.most_voted_strategy,
                                       period_state.safe_contract_address,
                                       entropy[a])))

AsmExitRemoveLiquidity(a) ==
    \E e \in Entropy :
        AsmAppend(a, "exit_pool_tx_hash", 1,
                  ExitRemoveLiquidity(period_state.most_voted_strategy,
                                      period_state.safe_contract_address, e), e,
                  GetMethodDataCall(
                      ExitAllowanceA(period_state.most_voted_strategy, e)))

AsmExitAllowanceA(a) ==
    AsmAppend(a, "exit_pool_tx_hash", 2,
              ExitAllowanceA(period_state.most_voted_strategy, entropy[a]),
              entropy[a],
              GetMethodDataCall(
                  ExitAllowanceB(period_state.most_voted_strategy, entropy[a])))

AsmExitAllowanceB(a) ==
    AsmAppend(a, "exit_pool_tx_hash", 3,
              ExitAllowanceB(period_state.most_voted_strategy, entropy[a]),
              entropy[a],
              GetMethodDataCall(
                  ExitSwapA(period_state.most_voted_strategy,
                            period_state.safe_contract_address, entropy[a])))

AsmExitSwapA(a) ==
    AsmAppend(a, "exit_pool_tx_hash", 4,
              ExitSwapA(period_state.most_voted_strategy,
                        period_state.safe_contract_address, entropy[a]),
              entropy[a],
              GetMethodDataCall(
                  ExitSwapB(period_state.most_voted_strategy,
                            period_state.safe_contract_address, entropy[a])))

\* the last sub-call is appended and the encoding of the batch is requested
AsmExitSwapB(a) ==
    LET tx == ExitSwapB(period_state.most_voted_strategy,
                        period_state.safe_contract_address, entropy[a])
    IN  AsmAppend(a, "exit_pool_tx_hash", 5, tx, entropy[a],
                  GetTxDataCall(period_state, Append(multi_send_txs[a], tx)))

\* the answer of get_tx_data: the behaviour holds multisend_data, the encoding
\* of its batch, and asks for the hash
AsmGetTxData(a) ==
    /\ current_round \in HashRounds
    /\ pc[a] = "start"
    /\ Len(multi_send_txs[a]) = 5
    /\ Len(calls[a]) = 6
    /\ pc' = [pc EXCEPT ![a] = "tx_data"]
    /\ calls' = [calls EXCEPT ![a] = Append(@, ContractCall(
            RawSafeTransactionHashArguments(period_state, multi_send_txs[a])))]
    /\ UNCHANGED <<period_state, current_round, round_payloads, entropy,
                   multi_send_txs, payload, attempts, validation, chain>>

\* the answer of get_raw_safe_transaction_hash, and the payload
AsmTransactionHash(a) ==
    /\ current_round \in HashRounds
    /\ pc[a] = "tx_data"
    /\ payload' = [payload EXCEPT ![a] =
            TransactionHashPayload(a,
                SafeTxHash(period_state.multisend_contract_address,
                           period_state.safe_contract_address,
                           multi_send_txs[a]))]
    /\ pc' = [pc EXCEPT ![a] = "send"]
    /\ UNCHANGED <<period_state, current_round, round_payloads, entropy,
                   multi_send_txs, attempts, calls, validation, chain>>

\* the local block of enter_pool_tx_hash: one of its steps
EnterPoolTransactionHashAct(a) ==
    \/ AsmEnterRequestSwapA(a)
    \/ AsmEnterSwapA(a)
    \/ AsmEnterSwapB(a)
    \/ AsmEnterAllowanceA(a)
    \/ AsmEnterAllowanceB(a)
    \/ AsmEnterAddLiquidity(a)
    \/ (Runs("enter_pool_tx_hash") /\ AsmGetTxData(a))
    \/ (Runs("enter_pool_tx_hash") /\ AsmTransactionHash(a))

\* the local block of exit_pool_tx_hash: one of its steps
ExitPoolTransactionHashAct(a) ==
    \/ AsmExitRequestRemoveLiquidity(a)
    \/ AsmExitRemoveLiquidity(a)
    \/ AsmExitAllowanceA(a)
    \/ AsmExitAllowanceB(a)
    \/ AsmExitSwapA(a)
    \/ AsmExitSwapB(a)
    \/ (Runs("exit_pool_tx_hash") /\ AsmGetTxData(a))
    \/ (Runs("exit_pool_tx_hash") /\ AsmTransactionHash(a))

----------------------------------------------------------------------------
(* TransactionSignatureBaseBehaviour.                                      *)

\* the text is a slice of "0x" followed by hex digits: it holds hex digits
\* only when it does not reach over the "x" at position 1
IsHexOfEvenLength(text) ==
    /\ text.len % 2 = 0
    /\ ~ (text.off <= 1 /\ 1 < text.off + text.len)

\* binascii.Error, raised on a text of odd length or with a character that is
\* no hex digit
BinasciiError == [raised |-> "binascii.Error"]

\* binascii.unhexlify
Unhexlify(text) ==
    IF IsHexOfEvenLength(text) THEN [unhex |-> text] ELSE BinasciiError

\* the body of the signing service's answer: "0x" + 130 hex digits
SignedMessageBody(signer, message, is_deprecated_mode) ==
    HexText([signer |-> signer, message |-> message,
             is_deprecated_mode |-> is_deprecated_mode], 130)

\* faulty variant: the hex text of the hash is signed as a message
get_safe_tx_signature_of_text(a) ==
    LET signature_hex ==
            SignedMessageBody(a, period_state.most_voted_tx_hash, FALSE)
    IN  DropFirst(signature_hex, 2)

get_safe_tx_signature(a) ==
    LET safe_tx_hash_bytes ==
            Unhexlify(TakeFirst(period_state.most_voted_tx_hash, HASH_HEX_LEN))
        signature_hex == SignedMessageBody(a, safe_tx_hash_bytes, TRUE)
    IN  DropFirst(signature_hex, 2)

\* the signing request of _get_safe_tx_signature
SafeTxSigningCall ==
    SigningCall(Unhexlify(TakeFirst(period_state.most_voted_tx_hash,
                                    HASH_HEX_LEN)), TRUE)

\* faulty variant: the payload is keyed by the keeper's address
SignaturePayloadOfKeeper(sender, signature_hex) ==
    Payload(period_state.most_voted_keeper_address, signature_hex)

SignaturePayload(sender, signature_hex) == Payload(sender, signature_hex)

\* faulty variant: the behaviour writes its signature into the period state
SignatureActWritesState(a) ==
    /\ \E b \in SignatureBehaviours : Runs(b)
    /\ pc[a] = "start"
    /\ period_state' = [period_state EXCEPT !.participant_to_signature =
                            @ \cup {SignaturePayload(a, get_safe_tx_signature(a))}]
    /\ pc' = [pc EXCEPT ![a] = "signing"]
    /\ calls' = [calls EXCEPT ![a] = Append(@, SafeTxSigningCall)]
    /\ UNCHANGED <<current_round, round_payloads, payload,
                   entropy, multi_send_txs, attempts, validation, chain>>

\* _get_safe_tx_signature up to wait_for_message: the agreed hash is decoded
\* and the signing request is made.  An agreed hash that cannot be decoded
\* ends the behaviour with the error of unhexlify, before any signing request
SignatureAct(a) ==
    /\ \E b \in SignatureBehaviours : Runs(b)
    /\ pc[a] = "start"
    /\ IF Unhexlify(TakeFirst(period_state.most_voted_tx_hash, HASH_HEX_LEN))
            = BinasciiError
          THEN /\ pc' = [pc EXCEPT ![a] = "error"]
               /\ UNCHANGED calls
          ELSE /\ pc' = [pc EXCEPT ![a] = "signing"]
               /\ calls' = [calls EXCEPT ![a] = Append(@, SafeTxSigningCall)]
    /\ UNCHANGED <<period_state, current_round, round_payloads, payload,
                   entropy, multi_send_txs, attempts, validation, chain>>

\* the answer of the signing request: the rest of _get_safe_tx_signature, and
\* the payload
SignatureSigned(a) ==
    /\ \E b \in SignatureBehaviours : Runs(b)
    /\ pc[a] = "signing"
    /\ payload' = [payload EXCEPT ![a] =
                        SignaturePayload(a, get_safe_tx_signature(a))]
    /\ pc' = [pc EXCEPT ![a] = "send"]
    /\ UNCHANGED <<period_state, current_round, round_payloads,
                   entropy, multi_send_txs, attempts, calls, validation, chain>>

----------------------------------------------------------------------------
(* TransactionSendBaseBehaviour.                                           *)

\* faulty variant: the comparison is inverted
IsSenderInverted(agent_address, most_voted_keeper_address) ==
    agent_address # most_voted_keeper_address

\* async_act takes the sender branch
IsSender(agent_address, most_voted_keeper_address) ==
    ~ (agent_address # most_voted_keeper_address)

SignaturesByOwner(state) ==
    {[key |-> p.sender, signature |-> p.value] : p \in state.participant_to_signature}

\* the arguments of get_raw_safe_transaction
RawSafeTransaction(a, state) ==
    [contract_address |-> state.safe_contract_address,
     contract_callable |-> "get_raw_safe_transaction",
     sender_address |-> a,
     owners |-> state.participants,
     to_address |-> a,
     signatures_by_owner |-> SignaturesByOwner(state)]


\* faulty variant: the payload does not carry the hash the broadcast returned
FinalizationTxPayloadWithoutHash(sender, tx_hash) == Payload(sender, NoTxHash)

FinalizationTxPayload(sender, tx_hash) == Payload(sender, tx_hash)

\* faulty variant: the non-sender proposes the final tx hash it reads from the
\* period state
NotSenderActSubmits(a) ==
    /\ \E b \in SendBehaviours : Runs(b)
    /\ pc[a] = "start"
    /\ ~ IsSender(a, period_state.most_voted_keeper_address)
    /\ payload' = [payload EXCEPT ![a] =
                      FinalizationTxPayload(a, period_state.final_tx_hash)]
    /\ pc' = [pc EXCEPT ![a] = "send"]
    /\ UNCHANGED <<period_state, current_round, round_payloads,
                   entropy, multi_send_txs, attempts, calls, validation, chain>>

\* faulty variant: the non-sender does not wait for the end of the round
\* before it sets done
NotSenderActWithoutWait(a) ==
    /\ \E b \in SendBehaviours : Runs(b)
    /\ pc[a] = "start"
    /\ ~ IsSender(a, period_state.most_voted_keeper_address)
    /\ pc' = [pc EXCEPT ![a] = "round_ended"]
    /\ UNCHANGED <<period_state, current_round, round_payloads,
                   entropy, multi_send_txs, payload, attempts, calls, validation, chain>>

NotSenderAct(a) ==
    /\ \E b \in SendBehaviours : Runs(b)
    /\ pc[a] = "start"
    /\ ~ IsSender(a, period_state.most_voted_keeper_address)
    /\ pc' = [pc EXCEPT ![a] = "wait"]
    /\ UNCHANGED <<period_state, current_round, round_payloads,
                   entropy, multi_send_txs, payload, attempts, calls, validation, chain>>

\* faulty variant: the sender's branch is not guarded by the comparison with
\* the keeper
SenderGetRawSafeTransactionByAnyone(a) ==
    /\ \E b \in SendBehaviours : Runs(b)
    /\ pc[a] = "start"
    /\ Len(chain.broadcasts) < MaxBroadcasts
    /\ chain' = [chain EXCEPT !.requests =
                    @ \cup {[by |-> a, round |-> current_round]}]
    /\ pc' = [pc EXCEPT ![a] = "raw_tx"]
    /\ calls' = [calls EXCEPT ![a] =
            Append(@, ContractCall(RawSafeTransaction(a, period_state)))]
    /\ UNCHANGED <<period_state, current_round, round_payloads,
                   entropy, multi_send_txs, payload, attempts, validation>>

\* _send_safe_transaction, up to the answer of get_raw_safe_transaction.  A
\* send round that is entered again makes the keeper broadcast again: the
\* model follows the keeper for MaxBroadcasts transactions handed to the
\* chain, after which the keeper does not respond any more.
SenderGetRawSafeTransaction(a) ==
    /\ \E b \in SendBehaviours : Runs(b)
    /\ pc[a] = "start"
    /\ IsSender(a, period_state.most_voted_keeper_address)
    /\ Len(chain.broadcasts) < MaxBroadcasts
    /\ chain' = [chain EXCEPT !.requests =
                    @ \cup {[by |-> a, round |-> current_round]}]
    /\ pc' = [pc EXCEPT ![a] = "raw_tx"]
    /\ calls' = [calls EXCEPT ![a] =
            Append(@, ContractCall(RawSafeTransaction(a, period_state)))]
    /\ UNCHANGED <<period_state, current_round, round_payloads,
                   entropy, multi_send_txs, payload, attempts, validation>>

\* send_raw_transaction: the raw transaction is handed to the chain, which
\* accepts it or not; the behaviour waits for the answer
SenderSendRawTransaction(a) ==
    /\ \E b \in SendBehaviours : Runs(b)
    /\ pc[a] = "raw_tx"
    /\ \E accepted \in BOOLEAN, settles \in BOOLEAN :
          LET n == Len(chain.broadcasts) + 1
              tx_hash == IF accepted THEN ChainTxHash(n) ELSE NoTxHash
          IN  chain' = [chain EXCEPT !.broadcasts = Append(@,
                    [by |-> a, round |-> current_round,
                     raw_transaction |-> RawSafeTransaction(a, period_state),
                     tx_hash |-> tx_hash,
                     settled |-> accepted /\ settles])]
    /\ pc' = [pc EXCEPT ![a] = "broadcast"]
    /\ calls' = [calls EXCEPT ![a] =
            Append(@, SendRawTransactionCall(RawSafeTransaction(a, period_state)))]
    /\ UNCHANGED <<period_state, current_round, round_payloads,
                   entropy, multi_send_txs, payload, attempts, validation>>

\* what send_raw_transaction returns for the transaction handed over last
ReturnedTxHash == chain.broadcasts[Len(chain.broadcasts)].tx_hash

\* faulty variant: the missing hash is not checked and is proposed as the
\* final tx hash
SenderTxHashUnchecked(a) ==
    /\ \E b \in SendBehaviours : Runs(b)
    /\ pc[a] = "broadcast"
    /\ pc' = [pc EXCEPT ![a] = "send"]
    /\ payload' = [payload EXCEPT ![a] = FinalizationTxPayload(a, ReturnedTxHash)]
    /\ UNCHANGED <<period_state, current_round, round_payloads,
                   entropy, multi_send_txs, attempts, calls, validation, chain>>

\* the answer of send_raw_transaction and the rest of _sender_act's local
\* block
SenderTxHash(a) ==
    /\ \E b \in SendBehaviours : Runs(b)
    /\ pc[a] = "broadcast"
    /\ IF ReturnedTxHash = NoTxHash
          THEN /\ pc' = [pc EXCEPT ![a] = "error"]
               /\ UNCHANGED payload
          ELSE /\ pc' = [pc EXCEPT ![a] = "send"]
               /\ payload' = [payload EXCEPT ![a] =
                                  FinalizationTxPayload(a, ReturnedTxHash)]
    /\ UNCHANGED <<period_state, current_round, round_payloads,
                   entropy, multi_send_txs, attempts, calls, validation, chain>>

----------------------------------------------------------------------------
(* TransactionValidationBaseBehaviour.                                     *)

ValidatePayload(sender, is_correct) == Payload(sender, is_correct)

\* the transactions the chain accepted, by hash
Accepted ==
    {n \in 1 .. Len(chain.broadcasts) : chain.broadcasts[n].tx_hash # NoTxHash}
OnChain(tx_hash) == {n \in Accepted : chain.broadcasts[n].tx_hash = tx_hash}

\* faulty variant: every receipt counts as settled
IsTransactionSettledAnyReceipt(receipt) == receipt.status \in {0, 1}

\* EthereumApi.is_transaction_settled(receipt)
IsTransactionSettled(receipt) == receipt.status = 1

\* GnosisSafeContract.verify_tx: the transaction with this hash is the safe
\* transaction these owners, recipient and signatures describe
VerifyTx(tx_hash, owners, to_address, signatures_by_owner) ==
    \E n \in OnChain(tx_hash) :
        LET tx == chain.broadcasts[n].raw_transaction
        IN  /\ tx.owners = owners
            /\ tx.to_address = to_address
            /\ tx.signatures_by_owner = signatures_by_owner

\* faulty variant: an exhausted receipt poll counts as a failed transaction
IsCorrectNoReceiptIsFalse(v) ==
    IF v.response = None THEN "False"
    ELSE IF ~ v.is_settled THEN "False"
    ELSE IF v.performative # "STATE" THEN "False"
    ELSE IF v.verified THEN "True" ELSE "False"

\* faulty variant: a transaction that is not settled counts as sent
IsCorrectUnsettled(v) ==
    IF v.response = None THEN "None"
    ELSE IF ~ v.is_settled THEN "True"
    ELSE IF v.performative # "STATE" THEN "False"
    ELSE IF v.verified THEN "True" ELSE "False"

\* what has_transaction_been_sent returns once it is past the receipt poll
\* with these locals (Python's None, False, True are "None", "False", "True")
IsCorrect(v) ==
    IF v.response = None THEN "None"
    ELSE IF ~ v.is_settled THEN "False"
    ELSE IF v.performative # "STATE" THEN "False"
    ELSE IF v.verified THEN "True" ELSE "False"

\* the arguments of verify_tx
VerifyTxArguments(a, state) ==
    [contract_address |-> state.safe_contract_address,
     contract_callable |-> "verify_tx",
     tx_hash |-> state.final_tx_hash,
     owners |-> state.participants,
     to_address |-> a,
     signatures_by_owner |-> SignaturesByOwner(state)]

\* has_transaction_been_sent up to its first suspension: the poll for the
\* receipt starts with its first attempt
ValidationRequestReceipt(a) ==
    /\ \E b \in ValidationBehaviours : Runs(b)
    /\ pc[a] = "start"
    /\ pc' = [pc EXCEPT ![a] = "poll"]
    /\ calls' = [calls EXCEPT ![a] =
            Append(@, GetTransactionReceiptCall(period_state.final_tx_hash))]
    /\ UNCHANGED <<period_state, current_round, round_payloads, entropy,
                   multi_send_txs, payload, attempts, validation, chain>>

\* has_transaction_been_sent past a poll that returned None
ValidationNoReceipt(a) ==
    /\ pc' = [pc EXCEPT ![a] = "send"]
    /\ payload' = [payload EXCEPT ![a] =
                        ValidatePayload(a, IsCorrect(validation[a]))]
    /\ UNCHANGED <<validation, calls>>

\* has_transaction_been_sent past a poll that returned the receipt of the
\* n-th transaction of the chain: the code up to the suspension in the
\* verify_tx request, or up to the payload when the receipt is not settled (a
\* poll that got its receipt has no use for the attempt counter any more)
ValidationReceipt(a, n) ==
    LET receipt == [tx_hash |-> period_state.final_tx_hash,
                    status |-> IF chain.broadcasts[n].settled THEN 1 ELSE 0]
        v == [validation[a] EXCEPT
                 !.response = "receipt",
                 !.is_settled = IsTransactionSettled(receipt)]
    IN  /\ validation' = [validation EXCEPT ![a] = v]
        /\ IF ~ v.is_settled
              THEN /\ pc' = [pc EXCEPT ![a] = "send"]
                   /\ payload' = [payload EXCEPT ![a] =
                                      ValidatePayload(a, IsCorrect(v))]
                   /\ UNCHANGED calls
              ELSE /\ pc' = [pc EXCEPT ![a] = "verify"]
                   /\ calls' = [calls EXCEPT ![a] = Append(@,
                            ContractCall(VerifyTxArguments(a, period_state)))]
                   /\ UNCHANGED payload
        /\ attempts' = [attempts EXCEPT ![a] = 0]

\* get_transaction_receipt gives up with the attempt that uses up
\* retry_attempts
PollExhausted(made) == made >= RetryAttempts

\* faulty variant: a poll that used up its attempts keeps the behaviour in the
\* poll and builds no payload
ValidationGetReceiptBlocks(a) ==
    /\ \E b \in ValidationBehaviours : Runs(b)
    /\ pc[a] = "poll"
    /\ \E mined \in BOOLEAN :
          LET found == IF mined THEN OnChain(period_state.final_tx_hash) ELSE {}
          IN  IF found = {}
              THEN /\ attempts' = [attempts EXCEPT ![a] = @ + 1]
                   /\ pc' = [pc EXCEPT ![a] = "retry"]
                   /\ calls' = [calls EXCEPT ![a] =
                                   Append(@, SleepCall(RetryTimeout))]
                   /\ UNCHANGED <<payload, validation>>
              ELSE \E n \in found : ValidationReceipt(a, n)
    /\ UNCHANGED <<period_state, current_round, round_payloads,
                   entropy, multi_send_txs, chain>>

\* the answer of one attempt of get_transaction_receipt: the receipt of a
\* transaction with the final tx hash, or none; an attempt without receipt is
\* followed by the pause of retry_timeout unless it used up retry_attempts,
\* and then the poll returns None
ValidationGetReceipt(a) ==
    /\ \E b \in ValidationBehaviours : Runs(b)
    /\ pc[a] = "poll"
    /\ \E mined \in BOOLEAN :
          LET found == IF mined THEN OnChain(period_state.final_tx_hash) ELSE {}
          IN  IF found = {}
              THEN /\ attempts' = [attempts EXCEPT ![a] = @ + 1]
                   /\ IF PollExhausted(attempts[a] + 1)
                         THEN ValidationNoReceipt(a)
                         ELSE /\ pc' = [pc EXCEPT ![a] = "retry"]
                              /\ calls' = [calls EXCEPT ![a] =
                                              Append(@, SleepCall(RetryTimeout))]
                              /\ UNCHANGED <<payload, validation>>
              ELSE \E n \in found : ValidationReceipt(a, n)
    /\ UNCHANGED <<period_state, current_round, round_payloads,
                   entropy, multi_send_txs, chain>>

\* the pause of retry_timeout between two attempts of the poll is over: the
\* next attempt
ValidationRetryTimeout(a) ==
    /\ \E b \in ValidationBehaviours : Runs(b)
    /\ pc[a] = "retry"
    /\ pc' = [pc EXCEPT ![a] = "poll"]
    /\ calls' = [calls EXCEPT ![a] =
            Append(@, GetTransactionReceiptCall(period_state.final_tx_hash))]
    /\ UNCHANGED <<period_state, current_round, round_payloads, entropy,
                   multi_send_txs, payload, attempts, validation, chain>>

\* has_transaction_been_sent past the answer to verify_tx
ValidationVerified(a, performative) ==
    LET v == [validation[a] EXCEPT
                !.performative = performative,
                !.verified =
                    IF performative = "STATE"
                    THEN LET args == VerifyTxArguments(a, period_state)
                         IN  VerifyTx(args.tx_hash, args.owners,
                                      args.to_address,
                                      args.signatures_by_owner)
                    ELSE FALSE]
    IN  /\ validation' = [validation EXCEPT ![a] = v]
        /\ payload' = [payload EXCEPT ![a] = ValidatePayload(a, IsCorrect(v))]
        /\ pc' = [pc EXCEPT ![a] = "send"]

\* faulty variant: a verify_tx request that is answered with an error is made
\* once again
ValidationVerifyTxRetries(a) ==
    /\ \E b \in ValidationBehaviours : Runs(b)
    /\ pc[a] = "verify"
    /\ \E performative \in {"STATE", "ERROR"} :
          IF performative = "ERROR" /\ validation[a].performative # "ERROR"
          THEN /\ validation' = [validation EXCEPT
                                    ![a].performative = performative]
               /\ calls' = [calls EXCEPT ![a] = Append(@,
                        ContractCall(VerifyTxArguments(a, period_state)))]
               /\ UNCHANGED <<pc, payload>>
          ELSE /\ ValidationVerified(a, performative)
               /\ UNCHANGED calls
    /\ UNCHANGED <<period_state, current_round, round_payloads,
                   entropy, multi_send_txs, attempts, chain>>

\* the answer of the verify_tx request
ValidationVerifyTx(a) ==
    /\ \E b \in ValidationBehaviours : Runs(b)
    /\ pc[a] = "verify"
    /\ \E performative \in {"STATE", "ERROR"} :
          ValidationVerified(a, performative)
    /\ UNCHANGED <<period_state, current_round, round_payloads,
                   entropy, multi_send_txs, attempts, calls, chain>>

----------------------------------------------------------------------------
(* The agreement substrate: how a round ends.                              *)

StrategyRoundDone ==
    /\ current_round = StrategyEvaluationRound
    /\ \E v \in Values(round_payloads) :
          /\ HasQuorum(round_payloads, v)
          /\ EndRound("DONE", NextRound(current_round),
                      [period_state EXCEPT !.most_voted_strategy = v])

RandomnessRoundDone ==
    /\ current_round \in RandomnessRounds
    /\ \E v \in Values(round_payloads) :
          /\ HasQuorum(round_payloads, v)
          /\ EndRound("DONE", NextRound(current_round),
                      [period_state EXCEPT !.most_voted_randomness = v])

SelectKeeperRoundDone ==
    /\ current_round \in SelectKeeperRounds
    /\ \E v \in Values(round_payloads) :
          /\ HasQuorum(round_payloads, v)
          /\ EndRound("DONE", NextRound(current_round),
                      [period_state EXCEPT !.most_voted_keeper_address = v])

HashRoundDone ==
    /\ current_round \in HashRounds
    /\ \E v \in Values(round_payloads) :
          /\ HasQuorum(round_payloads, v)
          /\ EndRound("DONE", NextRound(current_round),
                      [period_state EXCEPT !.most_voted_tx_hash = v])

SignatureRoundDone ==
    /\ current_round \in SignatureRounds
    /\ Cardinality(Senders(round_payloads)) >= QuorumSize
    /\ EndRound("DONE", NextRound(current_round),
                [period_state EXCEPT !.participant_to_signature = round_payloads])

SendRoundDone ==
    /\ current_round \in SendRounds
    /\ \E p \in round_payloads :
          /\ p.sender = period_state.most_voted_keeper_address
          /\ EndRound("DONE", NextRound(current_round),
                      [period_state EXCEPT !.final_tx_hash = p.value])

ValidationRoundDone ==
    /\ current_round \in ValidationRounds
    /\ \E v \in Values(round_payloads) :
          /\ HasQuorum(round_payloads, v)
          /\ EndRound("DONE", NextRound(current_round),
                      [period_state EXCEPT !.most_voted_validation = v])

\* faulty variant: a send round has no timeout
RoundTimeoutNotInSendRounds ==
    /\ current_round \notin SendRounds \cup {ResetRound}
    /\ EndRound("ROUND_TIMEOUT", current_round, period_state)

\* the round's timeout expires before the round concluded
RoundTimeout ==
    /\ current_round # ResetRound
    /\ EndRound("ROUND_TIMEOUT", current_round, period_state)

NoMajority ==
    /\ current_round \notin SignatureRounds \cup SendRounds \cup {ResetRound}
    /\ NoMajorityPossible(round_payloads)
    /\ EndRound("NO_MAJORITY", current_round, period_state)

----------------------------------------------------------------------------
Next ==
    \/ \E a \in period_state.participants :
          \/ StrategyEvaluationAct(a)
          \/ RandomnessAct(a)
          \/ SelectKeeperAct(a)
          \/ EnterPoolTransactionHashAct(a)
          \/ ExitPoolTransactionHashAct(a)
          \/ SignatureAct(a)
          \/ SignatureSigned(a)
          \/ NotSenderAct(a)
          \/ SenderGetRawSafeTransaction(a)
          \/ SenderSendRawTransaction(a)
          \/ SenderTxHash(a)
          \/ ValidationRequestReceipt(a)
          \/ ValidationGetReceipt(a)
          \/ ValidationRetryTimeout(a)
          \/ ValidationVerifyTx(a)
          \/ SendA2ATransaction(a)
          \/ SetDone(a)
    \/ StrategyRoundDone
    \/ RandomnessRoundDone
    \/ SelectKeeperRoundDone
    \/ HashRoundDone
    \/ SignatureRoundDone
    \/ SendRoundDone
    \/ ValidationRoundDone
    \/ RoundTimeout
    \/ NoMajority

Spec == Init /\ [][Next]_vars

----------------------------------------------------------------------------
(* The tx-hash behaviours of one participant, over every strategy.         *)

AsmAgents == {"agent_1"}

\* a tx-hash round of a period in which some strategy was agreed
InitAsm ==
    /\ \E strategy \in StrategySet :
          period_state = [InitPeriodState EXCEPT
                            !.most_voted_strategy =
                                [strategy EXCEPT !.action = StrategyTypeValue(@)],
                            !.most_voted_randomness = 0,
                            !.most_voted_keeper_address =
                                SelectedKeeper(0, Participants)]
    /\ current_round \in HashRounds
    /\ InitLocals

NextAsm ==
    \E a \in AsmAgents :
        \/ AsmEnterRequestSwapA(a)
        \/ AsmEnterSwapA(a)
        \/ AsmEnterSwapB(a)
        \/ AsmEnterAllowanceA(a)
        \/ AsmEnterAllowanceB(a)
        \/ AsmEnterAddLiquidity(a)
        \/ AsmExitRequestRemoveLiquidity(a)
        \/ AsmExitRemoveLiquidity(a)
        \/ AsmExitAllowanceA(a)
        \/ AsmExitAllowanceB(a)
        \/ AsmExitSwapA(a)
        \/ AsmExitSwapB(a)
        \/ AsmGetTxData(a)
        \/ AsmTransactionHash(a)

SpecAsm == InitAsm /\ [][NextAsm]_vars

----------------------------------------------------------------------------
(* The signature round of a period with four participants: the keeper and  *)
(* the tx hash of the stub strategy's batch are agreed.                    *)

InitSig ==
    /\ current_round \in SignatureRounds
    /\ \E randomness \in Randomness, e \in Entropy :
          LET strategy == [get_strategy_update EXCEPT
                              !.action = StrategyTypeValue(@)]
              txs == IF current_round = EnterPoolTransactionSignatureRound
                     THEN EnterPoolMultiSendTxs(strategy, SAFE_CONTRACT_ADDRESS, e)
                     ELSE ExitPoolMultiSendTxs(strategy, SAFE_CONTRACT_ADDRESS, e)
          IN  period_state = [InitPeriodState EXCEPT
                    !.participants = Agents,
                    !.most_voted_strategy = strategy,
                    !.most_voted_randomness = randomness,
                    !.most_voted_keeper_address =
                        SelectedKeeper(randomness, Agents),
                    !.most_voted_tx_hash =
                        SafeTxHash(MULTISEND_CONTRACT_ADDRESS,
                                   SAFE_CONTRACT_ADDRESS, txs)]
    /\ InitLocals

NextSig ==
    \/ \E a \in period_state.participants :
          \/ SignatureAct(a)
          \/ SignatureSigned(a)
          \/ SendA2ATransaction(a)
          \/ SetDone(a)
    \/ SignatureRoundDone
    \/ RoundTimeout

SpecSig == InitSig /\ [][NextSig]_vars

----------------------------------------------------------------------------
(* A send round on its own, with the substrate's timeout scheduled fairly. *)
(* The keeper's steps are not: a keeper may stop at any point.             *)

InitSend ==
    /\ current_round \in SendRounds
    /\ \E randomness \in Randomness, e \in Entropy :
          LET strategy == [get_strategy_update EXCEPT
                              !.action = StrategyTypeValue(@)]
              txs == IF current_round = EnterPoolTransactionSendRound
                     THEN EnterPoolMultiSendTxs(strategy, SAFE_CONTRACT_ADDRESS, e)
                     ELSE ExitPoolMultiSendTxs(strategy, SAFE_CONTRACT_ADDRESS, e)
              tx_hash == SafeTxHash(MULTISEND_CONTRACT_ADDRESS,
                                    SAFE_CONTRACT_ADDRESS, txs)
              safe_tx_hash_bytes == Unhexlify(TakeFirst(tx_hash, HASH_HEX_LEN))
          IN  period_state = [InitPeriodState EXCEPT
                    !.participants = SendParticipants,
                    !.most_voted_strategy = strategy,
                    !.most_voted_randomness = randomness,
                    !.most_voted_keeper_address =
                        SelectedKeeper(randomness, SendParticipants),
                    !.most_voted_tx_hash = tx_hash,
                    !.participant_to_signature =
                        {SignaturePayload(a, DropFirst(
                            SignedMessageBody(a, safe_tx_hash_bytes, TRUE), 2))
                           : a \in SendParticipants}]
    /\ InitLocals

NextSend ==
    \/ \E a \in period_state.participants :
          \/ NotSenderAct(a)
          \/ SenderGetRawSafeTransaction(a)
          \/ SenderSendRawTransaction(a)
          \/ SenderTxHash(a)
          \/ SendA2ATransaction(a)
          \/ SetDone(a)
    \/ SendRoundDone
    \/ RoundTimeout

SpecSend == InitSend /\ [][NextSend]_vars /\ WF_vars(RoundTimeout)

----------------------------------------------------------------------------
(* Views of a batch used by the properties.                                *)

SwapMethods == {"swap_exact_tokens_for_ETH", "swap_exact_tokens_for_tokens",
                "swap_exact_ETH_for_tokens"}
LiquidityMethods == {"add_liquidity", "add_liquidity_ETH",
                     "remove_liquidity", "remove_liquidity_ETH"}

Methods(txs) == [i \in 1 .. Len(txs) |-> txs[i].data.method_name]

Kind(tx) ==
    CASE tx.data.method_name \in SwapMethods -> "swap"
      [] tx.data.method_name = "approve" -> "allowance"
      [] tx.data.method_name \in LiquidityMethods -> "liquidity"

\* the leg of the pair a sub-call is about
Leg(tx, strategy) ==
    CASE Kind(tx) = "swap" ->
            IF \E i \in 1 .. Len(tx.data.path) :
                    tx.data.path[i] = strategy.pair.token_a.address
            THEN "A" ELSE "B"
      [] Kind(tx) = "allowance" ->
            IF tx.data.contract_address = strategy.pair.token_a.address
            THEN "A" ELSE "B"
      [] Kind(tx) = "liquidity" -> "AB"

CallOrder(txs, strategy) ==
    [i \in 1 .. Len(txs) |-> <<Kind(txs[i]), Leg(txs[i], strategy)>>]

Reverse(seq) == [i \in 1 .. Len(seq) |-> seq[Len(seq) + 1 - i]]

IsPrefix(seq, of) ==
    /\ Len(seq) <= Len(of)
    /\ \A i \in 1 .. Len(seq) : seq[i] = of[i]

EnterOrder ==
    <<<<"swap", "A">>, <<"swap", "B">>, <<"allowance", "A">>,
      <<"allowance", "B">>, <<"liquidity", "AB">>>>

ExitOrder ==
    <<<<"liquidity", "AB">>, <<"allowance", "A">>, <<"allowance", "B">>,
      <<"swap", "A">>, <<"swap", "B">>>>

\* the participants whose enter-pool / exit-pool batch is complete
EnterBuilt ==
    {a \in period_state.participants :
        Runs("enter_pool_tx_hash") /\ Len(multi_send_txs[a]) = 5}
ExitBuilt ==
    {a \in period_state.participants :
        Runs("exit_pool_tx_hash") /\ Len(multi_send_txs[a]) = 5}

TokenA == period_state.most_voted_strategy.pair.token_a
TokenB == period_state.most_voted_strategy.pair.token_b

Keeper == period_state.most_voted_keeper_address

\* the step is the end of a round: the substrate emits the round's terminal
\* event and the sequencer takes the next round from the transition table
RoundEnds ==
    \/ StrategyRoundDone
    \/ RandomnessRoundDone
    \/ SelectKeeperRoundDone
    \/ HashRoundDone
    \/ SignatureRoundDone
    \/ SendRoundDone
    \/ ValidationRoundDone
    \/ RoundTimeout
    \/ NoMajority

\* the keeper, the tx hash and a quorum of signatures over it are agreed
QuorumAgreed(state) ==
    /\ state.most_voted_keeper_address \in state.participants
    /\ IsSet(state.most_voted_tx_hash)
    /\ Cardinality(Senders(state.participant_to_signature))
          >= Cardinality(state.participants)
    /\ \A p \in state.participant_to_signature :
          p.value.of.message =
              Unhexlify(TakeFirst(state.most_voted_tx_hash, HASH_HEX_LEN))

\* every entry is keyed by a participant, holds that participant's own
\* signature, and is the only entry with its key
OneOwnEntryEach(entries) ==
    \A p \in entries :
        /\ p.sender \in period_state.participants
        /\ p.value.of.signer = p.sender
        /\ \A q \in entries : q.sender = p.sender => q = p

\* the arguments of the add-liquidity call of a complete enter batch:
\* <<minimum, desired>> of leg A and of leg B (the native call has no desired
\* amount for leg A: the leg's amount stands for it)
AddLiquidityA(a) ==
    LET d == multi_send_txs[a][5].data
    IN  IF d.method_name = "add_liquidity_ETH"
        THEN <<d.amount_ETH_min, TokenA.amount>>
        ELSE <<d.amount_a_min, d.amount_a_desired>>
AddLiquidityB(a) ==
    LET d == multi_send_txs[a][5].data
    IN  IF d.method_name = "add_liquidity_ETH"
        THEN <<d.amount_token_min, d.amount_token_desired>>
        ELSE <<d.amount_b_min, d.amount_b_desired>>

\* <<minimum of leg A, minimum of leg B>> of the remove-liquidity call
RemoveLiquidityMins(a) ==
    LET d == multi_send_txs[a][1].data
    IN  IF d.method_name = "remove_liquidity_ETH"
        THEN <<d.amount_ETH_min, d.amount_token_min>>
        ELSE <<d.amount_a_min, d.amount_b_min>>

----------------------------------------------------------------------------
(* Properties.                                                             *)

\* C1: in a send round a participant that is not the agreed keeper never asks
\* for the raw safe transaction, never broadcasts and submits no payload: it
\* waits for the end of the round and sets done.  Every request for a raw safe
\* transaction and every transaction handed to the chain is made by the
\* keeper agreed at that moment.
C1_NonKeeperOnlyWaits ==
    /\ [](current_round \in SendRounds =>
            \A a \in period_state.participants \ {Keeper} :
                /\ pc[a] \in {"start", "wait", "round_ended"}
                /\ a \notin Senders(round_payloads)
                /\ calls[a] = <<>>)
    /\ [][ /\ \A r \in chain'.requests \ chain.requests :
                 r.by = Keeper /\ r.round = current_round
           /\ Len(chain'.broadcasts) > Len(chain.broadcasts) =>
                 /\ chain'.broadcasts[Len(chain'.broadcasts)].by = Keeper
                 /\ chain'.broadcasts[Len(chain'.broadcasts)].round
                       = current_round
           /\ \A a \in period_state.participants \ {Keeper} :
                 (current_round \in SendRounds /\ pc'[a] # pc[a]) =>
                     <<pc[a], pc'[a]>> \in
                         {<<"start", "wait">>, <<"wait", "round_ended">>,
                          <<"round_ended", "start">>} ]_vars

\* a send round ended with the keeper's transaction while a non-keeper waited
C1_Witness ==
    /\ current_round \in ValidationRounds
    /\ Len(chain.broadcasts) > 0
    /\ \E a \in period_state.participants \ {Keeper} : pc[a] = "round_ended"

\* C2: two participants that built the batch of the same tx-hash round from
\* the same agreed strategy hold identical batches and identical tx-hash
\* payloads.
C2_Deterministic ==
    \A a, b \in period_state.participants :
        (current_round \in HashRounds /\ pc[a] = "send" /\ pc[b] = "send") =>
            /\ multi_send_txs[a] = multi_send_txs[b]
            /\ payload[a].value = payload[b].value

\* C3: whenever the keeper is about to broadcast, and at every step that hands
\* a transaction to the chain, the keeper, the tx hash and a quorum of
\* signatures over that hash are agreed, and the transaction carries a quorum
\* of signatures, which are the agreed ones.
C3_BroadcastAfterQuorum ==
    /\ [](\A a \in period_state.participants :
            pc[a] \in {"raw_tx", "broadcast"} =>
                a = Keeper /\ QuorumAgreed(period_state))
    /\ [][Len(chain'.broadcasts) > Len(chain.broadcasts) =>
            LET tx == chain'.broadcasts[Len(chain'.broadcasts)].raw_transaction
            IN  /\ QuorumAgreed(period_state)
                /\ period_state' = period_state
                /\ tx.signatures_by_owner = SignaturesByOwner(period_state)
                /\ Cardinality({x.key : x \in tx.signatures_by_owner})
                      >= QuorumSize]_vars

\* the keeper's broadcast was accepted by the chain
C3_Witness ==
    /\ Len(chain.broadcasts) > 0
    /\ chain.broadcasts[1].tx_hash # NoTxHash
    /\ chain.broadcasts[1].by = Keeper

\* C4: the enter-pool batch grows in the order swap A, swap B, allowance A,
\* allowance B, add liquidity, with the native swap and add-liquidity methods
\* exactly when leg A is native, and is complete with exactly 5 sub-calls.
C4_EnterBatchOrder ==
    \A a \in period_state.participants :
        Runs("enter_pool_tx_hash") =>
            /\ IsPrefix(CallOrder(multi_send_txs[a],
                                  period_state.most_voted_strategy), EnterOrder)
            /\ IsPrefix(Methods(multi_send_txs[a]),
                   IF TokenA.is_native
                   THEN <<"swap_exact_tokens_for_ETH",
                          "swap_exact_tokens_for_tokens",
                          "approve", "approve", "add_liquidity_ETH">>
                   ELSE <<"swap_exact_tokens_for_tokens",
                          "swap_exact_tokens_for_tokens",
                          "approve", "approve", "add_liquidity">>)
            /\ pc[a] = "send" => Len(multi_send_txs[a]) = 5

\* a complete enter batch for a strategy whose leg A is native
C4_Witness ==
    \E a \in EnterBuilt : pc[a] = "send" /\ TokenA.is_native

\* C5 as stated: the exit batch read backwards has the enter batch's order of
\* kinds and legs.
C5_ExactMirror ==
    \A a \in ExitBuilt :
        Reverse(CallOrder(multi_send_txs[a], period_state.most_voted_strategy))
            = CallOrder(EnterPoolMultiSendTxs(period_state.most_voted_strategy,
                            period_state.safe_contract_address, entropy[a]),
                        period_state.most_voted_strategy)

\* C5 amended: the exit batch is the enter batch with its three groups (swaps,
\* allowances, liquidity) in reverse order and the legs of each group in the
\* same order A, B; each swap path is reversed and each allowance is zero
\* instead of the maximum.
C5_GroupMirror ==
    \A a \in ExitBuilt :
        LET strategy == period_state.most_voted_strategy
            exit == multi_send_txs[a]
            enter == EnterPoolMultiSendTxs(strategy,
                        period_state.safe_contract_address, entropy[a])
            order == CallOrder(enter, strategy)
        IN  /\ CallOrder(exit, strategy) =
                  <<order[5], order[3], order[4], order[1], order[2]>>
            /\ exit[4].data.path = Reverse(enter[1].data.path)
            /\ exit[5].data.path = Reverse(enter[2].data.path)
            /\ exit[2].data.value = Uint256(0)
            /\ exit[3].data.value = Uint256(0)
            /\ enter[3].data.value = MAX_ALLOWANCE
            /\ enter[4].data.value = MAX_ALLOWANCE

\* a complete exit batch
C5_Witness == ExitBuilt # {}

\* C6 as stated: the exit batch grows in the enter order (swap A, swap B,
\* allowance A, allowance B, liquidity last).
C6_SameOrderAsEnter ==
    \A a \in period_state.participants :
        Runs("exit_pool_tx_hash") =>
            IsPrefix(CallOrder(multi_send_txs[a],
                               period_state.most_voted_strategy), EnterOrder)

\* C6 amended: the exit batch grows in the fixed order remove liquidity,
\* allowance A, allowance B, swap A, swap B, and is complete with 5 sub-calls.
C6_ExitOrder ==
    \A a \in period_state.participants :
        Runs("exit_pool_tx_hash") =>
            /\ IsPrefix(CallOrder(multi_send_txs[a],
                                  period_state.most_voted_strategy), ExitOrder)
            /\ pc[a] = "send" => Len(multi_send_txs[a]) = 5

\* the exit tx hash was computed from a complete batch
C6_Witness ==
    \E a \in ExitBuilt :
        /\ pc[a] = "send"
        /\ multi_send_txs[a][1].data.method_name \in
              {"remove_liquidity", "remove_liquidity_ETH"}

\* C7 as stated: for every strategy each minimum of the add-liquidity call is
\* at most the desired amount of its leg.
C7_MinAtMostDesired ==
    \A a \in EnterBuilt :
        /\ AddLiquidityA(a)[1] <= AddLiquidityA(a)[2]
        /\ AddLiquidityB(a)[1] <= AddLiquidityB(a)[2]

\* C7 amended: for every strategy and each leg whose amount_min is at most its
\* amount, the minimum of the add-liquidity call for that leg is at most the
\* leg's desired amount; the minimum is int(amount_min * 0.99).
C7_MinAtMostDesiredIfMinAtMostAmount ==
    \A a \in EnterBuilt :
        /\ AddLiquidityA(a)[1] = (TokenA.amount_min * 99) \div 100
        /\ AddLiquidityB(a)[1] = (TokenB.amount_min * 99) \div 100
        /\ TokenA.amount_min <= TokenA.amount =>
              AddLiquidityA(a)[1] <= AddLiquidityA(a)[2]
        /\ TokenB.amount_min <= TokenB.amount =>
              AddLiquidityB(a)[1] <= AddLiquidityB(a)[2]

\* an add-liquidity call where the tolerance lowers the minimum below an
\* amount_min that equals the amount
C7_Witness ==
    \E a \in EnterBuilt :
        /\ TokenB.amount_min = 100
        /\ TokenB.amount = 100
        /\ AddLiquidityB(a) = <<99, 100>>

\* C8: the minimums of the remove-liquidity call are the strategy's amount_min
\* of each leg, unchanged, in the native and the non-native variant.
C8_RemoveLiquidityExactMins ==
    \A a \in period_state.participants :
        (Runs("exit_pool_tx_hash") /\ Len(multi_send_txs[a]) >= 1) =>
            /\ multi_send_txs[a][1].data.method_name =
                  IF TokenA.is_native THEN "remove_liquidity_ETH"
                                      ELSE "remove_liquidity"
            /\ RemoveLiquidityMins(a) = <<TokenA.amount_min, TokenB.amount_min>>

\* a remove-liquidity call for minimums a 1% tolerance would change
C8_Witness ==
    \E a \in period_state.participants :
        /\ Runs("exit_pool_tx_hash")
        /\ Len(multi_send_txs[a]) >= 1
        /\ ~ TokenA.is_native
        /\ RemoveLiquidityMins(a) = <<101, 100>>

\* C9: the signatures collected in a signature round and the agreed
\* participant_to_signature hold at most one entry per participant, no entry
\* keyed by a non-participant, and each entry is keyed by its signer.
C9_SignatureEntries ==
    /\ OneOwnEntryEach(period_state.participant_to_signature)
    /\ current_round \in SignatureRounds => OneOwnEntryEach(round_payloads)

\* every participant's signature is agreed
C9_Witness ==
    /\ Senders(period_state.participant_to_signature) = period_state.participants
    /\ current_round \in SendRounds

\* C10: a validation result of True means that a receipt was obtained, the
\* receipt is settled, verify_tx answered with STATE and reported verified,
\* and that the chain holds a settled transaction with the final tx hash that
\* matches what the validator described.
C10_TrueOnlyIfVerified ==
    \A a \in period_state.participants :
        (current_round \in ValidationRounds /\ pc[a] = "send"
            /\ payload[a].value = "True") =>
            /\ validation[a].response = "receipt"
            /\ validation[a].is_settled
            /\ validation[a].performative = "STATE"
            /\ validation[a].verified
            /\ \E n \in OnChain(period_state.final_tx_hash) :
                  chain.broadcasts[n].settled
            /\ VerifyTx(period_state.final_tx_hash, period_state.participants,
                        a, SignaturesByOwner(period_state))

\* a validator is about to submit True
C10_Witness ==
    \E a \in period_state.participants :
        /\ current_round \in ValidationRounds
        /\ pc[a] = "send"
        /\ payload[a].value = "True"

\* the transaction with the agreed final tx hash failed on the chain
FinalTxUnsettled ==
    \A n \in OnChain(period_state.final_tx_hash) : ~ chain.broadcasts[n].settled

\* C11: a validation whose receipt poll made retry_attempts attempts without a
\* receipt proposes None, not False, and never asked for verify_tx; verify_tx
\* is only asked for once a receipt is there.
C11_ExhaustedPollIsNone ==
    \A a \in period_state.participants :
        current_round \in ValidationRounds =>
            /\ (pc[a] = "send" /\ validation[a].response = None) =>
                  /\ attempts[a] = RetryAttempts
                  /\ payload[a].value = "None"
                  /\ validation[a].performative = None
                  /\ ~ validation[a].verified
            /\ attempts[a] = RetryAttempts =>
                  /\ pc[a] = "send"
                  /\ validation[a].response = None
            /\ pc[a] = "verify" => validation[a].response = "receipt"

\* a validation gave up polling although the transaction is on the chain
C11_Witness ==
    \E a \in period_state.participants :
        /\ current_round \in ValidationRounds
        /\ pc[a] = "send"
        /\ attempts[a] = RetryAttempts
        /\ payload[a].value = "None"
        /\ OnChain(period_state.final_tx_hash) # {}

\* C12: a validation that holds a receipt of a transaction that failed on the
\* chain proposes False without asking for verify_tx; the outcome is None
\* exactly without a receipt, else False when not settled, else the result of
\* the verification.
C12_UnsettledIsFalse ==
    \A a \in period_state.participants :
        (current_round \in ValidationRounds /\ pc[a] \in {"send", "verify"}) =>
            /\ (validation[a].response = "receipt" /\ FinalTxUnsettled) =>
                  /\ pc[a] = "send"
                  /\ ~ validation[a].is_settled
                  /\ payload[a].value = "False"
                  /\ validation[a].performative = None
            /\ (validation[a].response = "receipt" /\ ~ FinalTxUnsettled) =>
                  /\ validation[a].is_settled
                  /\ pc[a] = "send" =>
                        /\ validation[a].performative \in {"STATE", "ERROR"}
                        /\ payload[a].value =
                              IF validation[a].performative = "STATE"
                                    /\ validation[a].verified
                              THEN "True" ELSE "False"
            /\ pc[a] = "send" =>
                  (payload[a].value = "None" <=> validation[a].response = None)

\* a validation proposes False for a transaction that failed on the chain
C12_Witness ==
    \E a \in period_state.participants :
        /\ current_round \in ValidationRounds
        /\ pc[a] = "send"
        /\ validation[a].response = "receipt"
        /\ FinalTxUnsettled
        /\ payload[a].value = "False"

\* the broadcasts that returned no transaction hash
FailedBroadcasts ==
    {n \in 1 .. Len(chain.broadcasts) : chain.broadcasts[n].tx_hash = NoTxHash}

\* C13: the keeper's send behaviour ends with the error exactly when the
\* answer of its broadcast holds no transaction hash; a behaviour that ended
\* with the error stays ended: it holds and submits no finalization payload,
\* it is neither waiting for the round end nor about to set done, nothing is
\* broadcast after the failed broadcast, and the send round does not conclude
\* on a final tx hash.
C13_NoHashIsFatal ==
    /\ [](\A a \in period_state.participants :
            pc[a] = "error" =>
                /\ current_round \in SendRounds
                /\ a = Keeper
                /\ payload[a] = NoPayload
                /\ a \notin Senders(round_payloads)
                /\ Len(chain.broadcasts) \in FailedBroadcasts
                /\ chain.broadcasts[Len(chain.broadcasts)].by = a
                /\ chain.broadcasts[Len(chain.broadcasts)].round = current_round
                /\ ~ ENABLED SendRoundDone
                /\ ~ ENABLED SendA2ATransaction(a)
                /\ ~ ENABLED SetDone(a)
                /\ ~ ENABLED SenderGetRawSafeTransaction(a)
                /\ ~ ENABLED SenderSendRawTransaction(a))
    /\ [][\A a \in period_state.participants :
            /\ (pc[a] = "broadcast" /\ pc'[a] # "broadcast" /\ ~ RoundEnds) =>
                  /\ (ReturnedTxHash = NoTxHash) <=> (pc'[a] = "error")
                  /\ (ReturnedTxHash # NoTxHash) <=> (pc'[a] = "send")
                  /\ pc'[a] = "send" =>
                        payload'[a] = FinalizationTxPayload(a, ReturnedTxHash)
            /\ (pc[a] # "error" /\ pc'[a] = "error") =>
                  /\ pc[a] = "broadcast"
                  /\ ReturnedTxHash = NoTxHash
                  /\ payload'[a] = NoPayload
                  /\ round_payloads' = round_payloads
            /\ pc[a] = "error" =>
                  /\ pc'[a] = "error"
                  /\ chain' = chain
                  /\ current_round' = current_round
                  /\ period_state' = period_state]_vars

\* the keeper's broadcast returned no hash and the send round timed out since
C13_Witness ==
    \E n \in FailedBroadcasts :
        /\ pc[chain.broadcasts[n].by] = "error"
        /\ \E a \in period_state.participants \ {Keeper} : pc[a] = "round_ended"

\* C14: in a send round the only payload is the keeper's, it carries the hash
\* the keeper's latest broadcast returned, and the keeper holds it (about to
\* submit) or has submitted it exactly when that broadcast has returned a hash;
\* the keeper waits for the round end only with its payload submitted.
C14_FinalizationAfterBroadcast ==
    current_round \in SendRounds =>
        LET last == Len(chain.broadcasts)
            own == {p \in round_payloads : p.sender = Keeper}
        IN  /\ Cardinality(round_payloads) <= 1
            /\ round_payloads = own
            /\ \A p \in own :
                  /\ last > 0
                  /\ chain.broadcasts[last].by = Keeper
                  /\ chain.broadcasts[last].round = current_round
                  /\ p.value = chain.broadcasts[last].tx_hash
                  /\ p.value # NoTxHash
                  /\ pc[Keeper] = "wait"
            /\ pc[Keeper] = "send" =>
                  /\ last > 0
                  /\ payload[Keeper] =
                        Payload(Keeper, chain.broadcasts[last].tx_hash)
                  /\ chain.broadcasts[last].tx_hash # NoTxHash
                  /\ own = {}
            /\ pc[Keeper] = "wait" => own # {}
            /\ pc[Keeper] \in {"start", "raw_tx", "broadcast"} => own = {}

\* the keeper waits for the round end with the hash of its broadcast submitted
C14_Witness ==
    /\ current_round \in SendRounds
    /\ pc[Keeper] = "wait"
    /\ \E p \in round_payloads :
          /\ p.sender = Keeper
          /\ p.value = chain.broadcasts[Len(chain.broadcasts)].tx_hash

\* C15: the payload a participant holds in a signature round is the signature
\* (the hex digits of the signing service's answer) that it requested under
\* its own address, in the deprecated sign-raw-hash mode, over the 32 bytes
\* that the first 64 hex characters of the agreed most_voted_tx_hash decode to.
C15_SignsDecodedHash ==
    \A a \in period_state.participants :
        (current_round \in SignatureRounds /\ pc[a] = "send") =>
            LET tx_hash == period_state.most_voted_tx_hash
                request == payload[a].value.of
            IN  /\ request.message =
                      [unhex |-> [of |-> tx_hash.of, off |-> tx_hash.off,
                                  len |-> HASH_HEX_LEN]]
                /\ request.message.unhex.len = 2 * 32
                /\ request.is_deprecated_mode
                /\ request.signer = a
                /\ payload[a].sender = a
                /\ payload[a].value = [of |-> request, off |-> 2, len |-> 130]

\* a participant is about to submit its signature over the agreed hash
C15_Witness ==
    \E a \in period_state.participants :
        /\ current_round \in SignatureRounds
        /\ pc[a] = "send"
        /\ IsSet(period_state.most_voted_tx_hash)
        /\ payload[a].value.of.signer = a

\* C16: with four participants and the signature payloads of only three of
\* them collected, the signature round cannot conclude with DONE; when it ends
\* it ends by the round timeout, which agrees no signatures and enters the
\* same signature round again, with every participant's signature behaviour
\* starting over.
C16_ThreeOfFourTimesOut ==
    /\ [](( /\ current_round \in SignatureRounds
            /\ Cardinality(period_state.participants) = 4
            /\ Cardinality(Senders(round_payloads)) = 3)
             => (~ ENABLED SignatureRoundDone /\ ENABLED RoundTimeout))
    /\ [][( /\ current_round \in SignatureRounds
            /\ Cardinality(period_state.participants) = 4
            /\ Cardinality(Senders(round_payloads)) = 3
            /\ round_payloads' # round_payloads
            /\ round_payloads' = {})
             => /\ RoundTimeout
                /\ current_round' = current_round
                /\ period_state' = period_state
                /\ period_state'.participant_to_signature = {}
                /\ \A a \in period_state.participants :
                      /\ a \in Senders(round_payloads) => pc'[a] = "round_ended"
                      /\ pc'[a] \in {"round_ended", "start"}
                      /\ payload'[a] = NoPayload]_vars

\* a signature round of four participants was entered again: the three that
\* had waited for its end are resumed, the fourth starts over, and no
\* signature is agreed
C16_Witness ==
    /\ current_round \in SignatureRounds
    /\ Cardinality(period_state.participants) = 4
    /\ round_payloads = {}
    /\ period_state.participant_to_signature = {}
    /\ Cardinality({a \in period_state.participants : pc[a] = "round_ended"}) = 3
    /\ Cardinality({a \in period_state.participants : pc[a] = "start"}) = 1

\* C17: a behaviour leaves its wait only because the round ended, it is about
\* to set done only after it waited and the round ended, it sets done only
\* from there, and no step of a behaviour changes the current round or the
\* period state: the round changes only in the step that ends a round.
C17_NoPhaseTransitionsItself ==
    [][ /\ \A a \in period_state.participants :
              /\ (pc[a] = "wait" /\ pc'[a] # "wait") =>
                    (RoundEnds /\ pc'[a] = "round_ended")
              /\ (pc[a] # "round_ended" /\ pc'[a] = "round_ended") =>
                    (RoundEnds /\ pc[a] = "wait")
              /\ (pc[a] = "round_ended" /\ pc'[a] # "round_ended") =>
                    (SetDone(a) /\ pc'[a] = "start")
        /\ (current_round' # current_round \/ period_state' # period_state) =>
              RoundEnds ]_vars

\* the validation round concluded, which every participant had waited for, and
\* a participant has set done since
C17_Witness ==
    /\ current_round = ResetRound
    /\ period_state.most_voted_validation # "unset"
    /\ \E a \in period_state.participants : pc[a] = "start"
    /\ \E a \in period_state.participants : pc[a] = "round_ended"

\* the agreed facts of a period, in the order the rounds agree them
Facts ==
    <<"most_voted_strategy", "most_voted_randomness",
      "most_voted_keeper_address", "most_voted_tx_hash",
      "participant_to_signature", "final_tx_hash", "most_voted_validation">>

\* the fact is agreed in this period state
IsAgreed(fact, state) ==
    CASE fact = "most_voted_strategy" -> state.most_voted_strategy # NoStrategy
      [] fact = "most_voted_randomness" ->
            state.most_voted_randomness # NoRandomness
      [] fact = "most_voted_keeper_address" ->
            state.most_voted_keeper_address # None
      [] fact = "most_voted_tx_hash" -> IsSet(state.most_voted_tx_hash)
      [] fact = "participant_to_signature" ->
            state.participant_to_signature # {}
      [] fact = "final_tx_hash" -> state.final_tx_hash # NoTxHash
      [] fact = "most_voted_validation" -> state.most_voted_validation # "unset"

AgreedFacts(state) == {i \in 1 .. Len(Facts) : IsAgreed(Facts[i], state)}

\* the fact a round agrees when it concludes
FactOf(round) ==
    CASE round = StrategyEvaluationRound -> "most_voted_strategy"
      [] round \in RandomnessRounds -> "most_voted_randomness"
      [] round \in SelectKeeperRounds -> "most_voted_keeper_address"
      [] round \in HashRounds -> "most_voted_tx_hash"
      [] round \in SignatureRounds -> "participant_to_signature"
      [] round \in SendRounds -> "final_tx_hash"
      [] round \in ValidationRounds -> "most_voted_validation"

\* the rounds of the enter pipeline and of the exit pipeline of a period
EnterRounds ==
    {EnterPoolRandomnessRound, EnterPoolSelectKeeperRound,
     EnterPoolTransactionHashRound, EnterPoolTransactionSignatureRound,
     EnterPoolTransactionSendRound, EnterPoolTransactionValidationRound}
ExitRounds ==
    {ExitPoolRandomnessRound, ExitPoolSelectKeeperRound,
     ExitPoolTransactionHashRound, ExitPoolTransactionSignatureRound,
     ExitPoolTransactionSendRound, ExitPoolTransactionValidationRound}

\* the number of rounds of the period that concluded before this round, up to
\* the end of the enter pipeline
Concluded(round) ==
    CASE round = StrategyEvaluationRound -> 0
      [] round = EnterPoolRandomnessRound -> 1
      [] round = EnterPoolSelectKeeperRound -> 2
      [] round = EnterPoolTransactionHashRound -> 3
      [] round = EnterPoolTransactionSignatureRound -> 4
      [] round = EnterPoolTransactionSendRound -> 5
      [] round = EnterPoolTransactionValidationRound -> 6
      [] round \in ExitRounds \cup {ResetRound} -> 7

ResumedWithoutFinalization(a) ==
    /\ current_round \in SendRounds
    /\ ~ IsSender(a, Keeper)
    /\ Keeper \notin Senders(round_payloads)
    /\ pc[a] = "wait"
    /\ pc'[a] # "wait"

ReceiptPolls(log) ==
    {i \in 1 .. Len(log) : log[i].call = "get_transaction_receipt"}

\* the contract method or callable a contract request is for
CallableOf(request) ==
    IF "contract_callable" \in DOMAIN request
    THEN request.contract_callable ELSE request.method_name

\* two entries of a log are the same request
SameCall(c, d) ==
    /\ c.call = d.call
    /\ c.call = "get_contract_api_response" =>
          CallableOf(c.request) = CallableOf(d.request)
    /\ c.request = d.request

\* C21: the receipt poll of a validation makes at most retry_attempts
\* attempts, with one pause of retry_timeout between two attempts, and has
\* returned once they are used up; it is made in validation rounds only.
\* Every other request of a behaviour's execution (each contract call, the
\* signing request, the broadcast) is made once: the log of an execution
\* grows by one request per step and holds no such request twice.
C21_PollIsBounded ==
    /\ [](\A a \in Agents :
            LET log == calls[a]
                polls == ReceiptPolls(log)
            IN  /\ attempts[a] \in 0 .. RetryAttempts
                /\ Cardinality(polls) <= RetryAttempts
                /\ attempts[a] <= Cardinality(polls)
                /\ attempts[a] = RetryAttempts => pc[a] = "send"
                /\ (pc[a] = "start" /\ current_round \in ValidationRounds) =>
                      (log = <<>> /\ attempts[a] = 0)
                /\ pc[a] = "poll" =>
                      /\ Len(log) \in polls
                      /\ attempts[a] = Cardinality(polls) - 1
                      /\ attempts[a] < RetryAttempts
                /\ polls # {} =>
                      /\ current_round \in ValidationRounds
                      /\ a \in period_state.participants
                /\ pc[a] = "retry" =>
                      /\ log[Len(log)] = SleepCall(RetryTimeout)
                      /\ attempts[a] = Cardinality(polls)
                      /\ attempts[a] < RetryAttempts
                /\ \A i \in polls : \A j \in polls :
                      (i < j /\ \A k \in polls : ~ (i < k /\ k < j)) =>
                          /\ j = i + 2
                          /\ log[i + 1] = SleepCall(RetryTimeout)
                /\ \A i \in 1 .. Len(log) :
                      log[i].call = "sleep" =>
                          /\ i - 1 \in polls
                          /\ log[i] = SleepCall(RetryTimeout)
                          /\ i < Len(log) => i + 1 \in polls
                /\ \A i \in 1 .. Len(log) : \A j \in 1 .. Len(log) :
                      (i < j /\ log[i].call
                                  \notin {"get_transaction_receipt", "sleep"})
                          => ~ SameCall(log[i], log[j])
                /\ Cardinality({i \in 1 .. Len(log) :
                        log[i].call = "_send_signing_request"}) <= 1
                /\ Cardinality({i \in 1 .. Len(log) :
                        log[i].call = "send_raw_transaction"}) <= 1
                /\ pc[a] \in {"wait", "round_ended"} => log = <<>>)
    /\ [][\A a \in Agents :
            calls'[a] # calls[a] =>
                \/ calls'[a] = <<>>
                \/ /\ Len(calls'[a]) = Len(calls[a]) + 1
                   /\ IsPrefix(calls[a], calls'[a])
                   /\ ~ RoundEnds]_vars

\* one validation has used up its attempts, with the pause between them, and
\* has returned from the poll, while another one is still polling, one
\* attempt short of giving up
C21_Witness ==
    \E a, b \in period_state.participants :
        /\ current_round \in ValidationRounds
        /\ attempts[a] = RetryAttempts
        /\ pc[a] = "send"
        /\ Len(calls[a]) = 2 * RetryAttempts - 1
        /\ \A i \in 1 .. Len(calls[a]) :
              calls[a][i] = IF i % 2 = 1
                            THEN GetTransactionReceiptCall(period_state.final_tx_hash)
                            ELSE SleepCall(RetryTimeout)
        /\ attempts[b] = RetryAttempts - 1
        /\ pc[b] = "poll"

\* C22: a validation whose poll is exhausted is not stuck: it holds the
\* validation payload with the unresolved value and can submit it; a
\* validation that waits has exactly one payload of its own in the round and
\* the round can end; one that was resumed can set done; and a validation
\* round in which the unresolved or the negative value has the quorum can
\* conclude.
C22_ExhaustedPollDoesNotBlock ==
    current_round \in ValidationRounds =>
        /\ \A a \in period_state.participants :
              /\ attempts[a] = RetryAttempts =>
                    /\ pc[a] = "send"
                    /\ payload[a] = ValidatePayload(a, "None")
                    /\ a \notin Senders(round_payloads)
                    /\ ENABLED SendA2ATransaction(a)
              /\ pc[a] = "wait" =>
                    /\ Cardinality({p \in round_payloads : p.sender = a}) = 1
                    /\ ENABLED RoundTimeout
              /\ pc[a] = "round_ended" => ENABLED SetDone(a)
        /\ \A v \in {"None", "False"} :
              HasQuorum(round_payloads, v) => ENABLED ValidationRoundDone

\* every validation gave up its poll, the round has concluded with the
\* unresolved value agreed, and every participant has set done
C22_Witness ==
    /\ period_state.most_voted_validation = "None"
    /\ current_round \notin ValidationRounds
    /\ chain.broadcasts # <<>>
    /\ \A a \in period_state.participants : pc[a] = "start"

\* the inputs of get_raw_safe_transaction_hash the agreed hash was computed
\* from: to_address, value and data
AgreedTx == period_state.most_voted_tx_hash.of

\* C23: every raw safe transaction handed to the chain in a send round has
\* the target, the value and the data from which the agreed tx hash was
\* computed.
C23_BroadcastIsAgreedBatch ==
    \A n \in 1 .. Len(chain.broadcasts) :
        LET tx == chain.broadcasts[n].raw_transaction
        IN  /\ tx.to_address = AgreedTx.to_address
            /\ "value" \in DOMAIN tx
            /\ tx.value = AgreedTx.value
            /\ "data" \in DOMAIN tx
            /\ tx.data = AgreedTx.data

\* C24: a validation that has asked for verify_tx passed the owners, the
\* signatures by owner and the recipient that the keeper passed to
\* get_raw_safe_transaction when it built the transaction with the agreed
\* final tx hash.
C24_ValidatorsUseKeepersArguments ==
    \A a \in period_state.participants :
        ( /\ current_round \in ValidationRounds
          /\ validation[a].performative # None) =>
            \A n \in OnChain(period_state.final_tx_hash) :
                LET tx == chain.broadcasts[n].raw_transaction
                    args == VerifyTxArguments(a, period_state)
                IN  /\ args.owners = tx.owners
                    /\ args.signatures_by_owner = tx.signatures_by_owner
                    /\ args.to_address = tx.to_address

\* the transactions the chain accepted from the executions of a send round
BroadcastsOf(round) == {n \in Accepted : chain.broadcasts[n].round = round}

\* C25: over all participants and all executions of a send round, re-entered
\* or not, at most one transaction is handed to the chain.
C25_BroadcastAtMostOnce ==
    \A round \in SendRounds : Cardinality(BroadcastsOf(round)) <= 1

\* the hex text covers all the hex digits of the text it was cut from, and
\* nothing else: it starts right after the leading "0x" and ends with the text
IsAllHexDigits(text, digits) ==
    /\ text.off = 2
    /\ text.len = digits
    /\ text.off + text.len = HexText(text.of, digits).len

\* C26: the hash a tx-hash behaviour submits, on the enter and on the exit
\* path, is the wallet hash of its batch without the leading "0x", 64 hex
\* digits; and the bytes a signature behaviour signs are decoded from the
\* whole agreed text, all 64 hex digits of the wallet hash from the first to
\* the last, which are 32 bytes; the agreed text can always be decoded, so no
\* signature behaviour ends with the error of unhexlify.
C26_SignedBytesAreFullHash ==
    \A a \in period_state.participants :
        /\ (current_round \in HashRounds /\ pc[a] = "send") =>
              /\ IsAllHexDigits(payload[a].value, HASH_HEX_LEN)
              /\ payload[a].value.of =
                    RawSafeTransactionHash(
                        period_state.multisend_contract_address, ETHER_VALUE,
                        MultisendData(period_state.safe_contract_address,
                                      multi_send_txs[a])).of
        /\ current_round \in SignatureRounds =>
              /\ IsHexOfEvenLength(TakeFirst(period_state.most_voted_tx_hash,
                                             HASH_HEX_LEN))
              /\ pc[a] # "error"
        /\ (current_round \in SignatureRounds /\ pc[a] = "send") =>
              LET signed == payload[a].value.of.message.unhex
              IN  /\ IsAllHexDigits(signed, 2 * 32)
                  /\ signed = period_state.most_voted_tx_hash

\* a participant of the exit path has signed the agreed hash
C26_Witness ==
    \E a \in period_state.participants :
        /\ current_round = ExitPoolTransactionSignatureRound
        /\ pc[a] = "send"
        /\ payload[a].value.of.message.unhex.len = HASH_HEX_LEN

\* C27: in a complete enter batch the swaps of leg A and leg B have the paths
\* [base, leg]; in a complete exit batch they have the paths [leg, base], the
\* reverse of the enter paths of the same strategy; every swap pays out to the
\* safe; and the swap of leg A is swap_exact_tokens_for_ETH on the enter path
\* and swap_exact_ETH_for_tokens on the exit path exactly when leg A is
\* native, swap_exact_tokens_for_tokens otherwise.
C27_SwapPaths ==
    LET strategy == period_state.most_voted_strategy
        safe == period_state.safe_contract_address
        base == strategy.base.address
    IN  /\ \A a \in EnterBuilt :
              LET swap_a == multi_send_txs[a][1].data
                  swap_b == multi_send_txs[a][2].data
              IN  /\ swap_a.path = <<base, TokenA.address>>
                  /\ swap_b.path = <<base, TokenB.address>>
                  /\ swap_a.to = safe
                  /\ swap_b.to = safe
                  /\ swap_a.method_name = "swap_exact_tokens_for_ETH"
                        <=> TokenA.is_native
                  /\ swap_a.method_name = "swap_exact_tokens_for_tokens"
                        <=> ~ TokenA.is_native
        /\ \A a \in ExitBuilt :
              LET swap_a == multi_send_txs[a][4].data
                  swap_b == multi_send_txs[a][5].data
                  enter == EnterPoolMultiSendTxs(strategy, safe, entropy[a])
              IN  /\ swap_a.path = <<TokenA.address, base>>
                  /\ swap_b.path = <<TokenB.address, base>>
                  /\ swap_a.path = Reverse(enter[1].data.path)
                  /\ swap_b.path = Reverse(enter[2].data.path)
                  /\ swap_a.to = safe
                  /\ swap_b.to = safe
                  /\ enter[1].data.to = safe
                  /\ enter[2].data.to = safe
                  /\ swap_a.method_name = "swap_exact_ETH_for_tokens"
                        <=> TokenA.is_native
                  /\ swap_a.method_name = "swap_exact_tokens_for_tokens"
                        <=> ~ TokenA.is_native
                  /\ enter[1].data.method_name = "swap_exact_tokens_for_ETH"
                        <=> TokenA.is_native

\* a complete exit batch of a strategy whose leg A is native
C27_Witness ==
    \E a \in ExitBuilt :
        /\ TokenA.is_native
        /\ multi_send_txs[a][4].data.method_name = "swap_exact_ETH_for_tokens"

\* the allowance sub-calls a behaviour has appended so far
Allowances(a) ==
    {i \in 1 .. Len(multi_send_txs[a]) : Kind(multi_send_txs[a][i]) = "allowance"}

\* C28: every allowance sub-call approves the router as spender; its value is
\* 2^256 - 1 (sixteen 16-bit limbs, all ones) on the enter path and 0 on the
\* exit path, and no other value; in a complete batch the two allowance
\* sub-calls are on the token contract of leg A and of leg B.
C28_Allowances ==
    LET strategy == period_state.most_voted_strategy
    IN  /\ \A i \in 1 .. 16 : MAX_ALLOWANCE[i] = 2 ^ 16 - 1
        /\ DOMAIN MAX_ALLOWANCE = 1 .. 16
        /\ \A a \in period_state.participants : \A i \in Allowances(a) :
              LET approve == multi_send_txs[a][i].data
              IN  /\ approve.method_name = "approve"
                  /\ approve.spender = strategy.router_address
                  /\ approve.contract_address \in
                        {TokenA.address, TokenB.address}
                  /\ approve.value \in {MAX_ALLOWANCE, Uint256(0)}
                  /\ approve.value = MAX_ALLOWANCE
                        <=> Runs("enter_pool_tx_hash")
                  /\ approve.value = Uint256(0)
                        <=> Runs("exit_pool_tx_hash")
        /\ \A a \in EnterBuilt :
              /\ Allowances(a) = {3, 4}
              /\ multi_send_txs[a][3].data.contract_address = TokenA.address
              /\ multi_send_txs[a][4].data.contract_address = TokenB.address
        /\ \A a \in ExitBuilt :
              /\ Allowances(a) = {2, 3}
              /\ multi_send_txs[a][2].data.contract_address = TokenA.address
              /\ multi_send_txs[a][3].data.contract_address = TokenB.address

\* a complete enter batch of a strategy with two token legs: both allowances
\* are the maximum
C28_Witness ==
    \E a \in EnterBuilt :
        /\ ~ TokenA.is_native
        /\ multi_send_txs[a][3].data.value = MAX_ALLOWANCE
        /\ multi_send_txs[a][4].data.value = MAX_ALLOWANCE

\* the methods that move the chain's native asset
NativeMethods ==
    {"swap_exact_tokens_for_ETH", "swap_exact_ETH_for_tokens",
     "add_liquidity_ETH", "remove_liquidity_ETH"}

\* C29: whatever the strategy, the swap of leg B is the token-for-token
\* variant on both paths; the liquidity call is the native variant
\* (add_liquidity_ETH, remove_liquidity_ETH) exactly when leg A is native, and
\* then its token side is leg B; with a leg A that is not native no sub-call
\* of a batch is a native one.
C29_OnlyLegANative ==
    /\ \A a \in period_state.participants :
          \A i \in 1 .. Len(multi_send_txs[a]) :
              multi_send_txs[a][i].data.method_name \in NativeMethods =>
                  /\ TokenA.is_native
                  /\ Leg(multi_send_txs[a][i], period_state.most_voted_strategy)
                        # "B"
    /\ \A a \in EnterBuilt :
          LET swap_b == multi_send_txs[a][2].data
              liquidity == multi_send_txs[a][5].data
          IN  /\ swap_b.method_name = "swap_exact_tokens_for_tokens"
              /\ liquidity.method_name =
                    IF TokenA.is_native THEN "add_liquidity_ETH"
                                        ELSE "add_liquidity"
              /\ TokenA.is_native => liquidity.token = TokenB.address
              /\ ~ TokenA.is_native =>
                    /\ liquidity.token_a = TokenA.address
                    /\ liquidity.token_b = TokenB.address
    /\ \A a \in ExitBuilt :
          LET swap_b == multi_send_txs[a][5].data
              liquidity == multi_send_txs[a][1].data
          IN  /\ swap_b.method_name = "swap_exact_tokens_for_tokens"
              /\ liquidity.method_name =
                    IF TokenA.is_native THEN "remove_liquidity_ETH"
                                        ELSE "remove_liquidity"
              /\ TokenA.is_native => liquidity.token = TokenB.address
              /\ ~ TokenA.is_native =>
                    /\ liquidity.token_a = TokenA.address
                    /\ liquidity.token_b = TokenB.address

\* a complete enter batch of a strategy whose leg A is native: native swap of
\* leg A, token swap of leg B, native liquidity call with leg B as its token
C29_Witness ==
    \E a \in EnterBuilt :
        /\ TokenA.is_native
        /\ multi_send_txs[a][1].data.method_name = "swap_exact_tokens_for_ETH"
        /\ multi_send_txs[a][2].data.method_name = "swap_exact_tokens_for_tokens"
        /\ multi_send_txs[a][5].data.token = TokenB.address

\* the steps of the sender's branch and of the non-sender's branch, as pairs
\* of the behaviour's position before and after
SenderSteps ==
    {<<"start", "raw_tx">>, <<"raw_tx", "broadcast">>, <<"broadcast", "send">>,
     <<"broadcast", "error">>, <<"send", "wait">>, <<"round_ended", "start">>}
NotSenderSteps == {<<"start", "wait">>, <<"round_ended", "start">>}
\* what the end of a round does to a behaviour: it resumes one that waits and
\* stops one that has not reached its wait
RoundEndSteps ==
    {<<"wait", "round_ended">>, <<"raw_tx", "start">>,
     <<"broadcast", "start">>, <<"send", "start">>}

\* C30: in a send round the agreed keeper stays the same; a participant takes
\* the sender's branch exactly when it is the agreed keeper, and the
\* non-sender's branch otherwise, never steps of both; every position of a
\* branch has its next step (the keeper's first request for as many
\* transactions as the model follows): a branch ends by setting done after the
\* end of the round or, for the keeper only, with the error.
C30_OneBranchEachTotal ==
    /\ [](current_round \in SendRounds =>
            \A a \in period_state.participants :
                /\ pc[a] \in {"raw_tx", "broadcast", "send", "error"} =>
                      IsSender(a, Keeper)
                /\ pc[a] = "start" =>
                      IF IsSender(a, Keeper)
                      THEN /\ ~ ENABLED NotSenderAct(a)
                           /\ Len(chain.broadcasts) < MaxBroadcasts =>
                                 ENABLED SenderGetRawSafeTransaction(a)
                      ELSE /\ ENABLED NotSenderAct(a)
                           /\ ~ ENABLED SenderGetRawSafeTransaction(a)
                /\ pc[a] = "raw_tx" => ENABLED SenderSendRawTransaction(a)
                /\ pc[a] = "broadcast" => ENABLED SenderTxHash(a)
                /\ pc[a] = "send" => ENABLED SendA2ATransaction(a)
                /\ pc[a] = "wait" => ENABLED RoundTimeout
                /\ pc[a] = "round_ended" => ENABLED SetDone(a))
    /\ [][(current_round \in SendRounds) =>
           (/\ period_state'.most_voted_keeper_address = Keeper
            /\ \A a \in period_state.participants :
                  pc'[a] # pc[a] =>
                      <<pc[a], pc'[a]>> \in
                          IF RoundEnds THEN RoundEndSteps
                          ELSE IF IsSender(a, Keeper) THEN SenderSteps
                          ELSE NotSenderSteps)]_vars

\* a send round has concluded on the keeper's transaction, and the keeper and
\* the non-keepers have all set done
C30_Witness ==
    /\ current_round \in ValidationRounds
    /\ period_state.final_tx_hash # NoTxHash
    /\ Len(chain.broadcasts) = 1
    /\ \A a \in period_state.participants : pc[a] = "start"

====
